---- MODULE Spec2Model ----
(***************************************************************************)
(* State-machine model of SystemZero: the hash-chained append-only log     *)
(* (core/logging), the sliding-window rate limiter and its middleware      *)
(* (interface/api/security.py) and the API-key manager                     *)
(* (interface/api/auth.py).                                                *)
(*                                                                         *)
(* SHA-256 is modelled as an injective function of its input: the hash of  *)
(* previous_hash || data_str || timestamp_text is the previous hash        *)
(* extended by the pair (data_str, timestamp_text).                        *)
(***************************************************************************)
EXTENDS Integers, Sequences, FiniteSets, TLC

\* ------------------------------------------------------------------ bounds
MaxAppends == 2        \* append calls in one behaviour of the log
MaxTime == 1           \* time.time() returns a value in 1..MaxTime
MaxForeign == 2        \* lines put into the file by something else than append
MaxTicks == 3          \* steps of the clock in one behaviour
MaxCalls == 5          \* check_rate_limit calls in one behaviour
MaxKeyOps == 4         \* key-manager calls in one behaviour
MaxWaits == 2          \* steps of the clock between HTTP requests
MaxApiSteps == 3       \* requests and revocations in one behaviour of the API
MaxRequests == 4       \* HTTP requests in one behaviour
MaxValidates == 3      \* validate_key calls the threads make in one behaviour
requests_per_minute == 3   \* RateLimiter(requests_per_minute, burst_size)
burst_size == 2
max_history == 6       \* TransitionChecker._max_history
MaxRecords == 7        \* record_transition calls in one behaviour
MaxObserved == 6       \* transitions recorded before the detectors are asked
MaxListed == 2         \* entries of a valid_transitions list
MaxWindow == 5         \* the window detect_loops is asked to analyse
MaxNodes == 3          \* nodes of an input tree
MaxWrites == 3         \* EventWriter.write calls on a writer of its own
MaxParts == 3          \* parts of a transition string around " -> "

\* ------------------------------------------------------- program constants
window_size == 60      \* RateLimiter.window_size
BurstWindow == 5       \* the burst window of check_rate_limit
cache_ttl == 60        \* APIKeyManager._cache_ttl
MinHistory == 3        \* the detectors return at once on a shorter history
FlowWindow == 5        \* detect_forced_flow looks at the last five transitions
MinFlow == 3           \* the shortest flow detect_forced_flow reports

\* ------------------------------------------------------------------ state
VARIABLES
    file,       \* the log file: the sequence of its lines
    log,        \* the ImmutableLog object with its HashChain and EventWriter
    appends,    \* number of append calls so far
    foreign,    \* number of lines written or changed outside append
    tampered,   \* the single change made to a stored entry, if any
    loaded,     \* number of entries the last open loaded
    lastOp,     \* the operation that produced the state
    th,         \* the threads inside ImmutableLog.append: position and locals
    clock,      \* the wall clock, in seconds
    requests,   \* RateLimiter._requests: client id -> queue of timestamps
    accepted,   \* per client, the timestamps of all its accepted calls
    resp,       \* the outcome of the last check_rate_limit or request
    calls,      \* number of check_rate_limit calls and requests so far
    ticks,      \* number of steps the clock made
    keys_file,  \* the API-key YAML file
    km,         \* the APIKeyManager: its cache, and the dicts it handed out
    issued,     \* the keys generate_key has returned
    revoked,    \* the keys for which revoke_key has returned True, and whether
                \* the manager held a fresh cached copy at that call
    kres,       \* the last key-manager call and what it returned
    kth,        \* the threads inside validate_key: position and locals
    hits,       \* per key, the validate_key calls that returned its metadata
    hres,       \* the last HTTP request: who sent it, the stages it ran, the
                \* outcome, and how many old timestamps the limiter discarded
    captures,   \* the captures the recorder has persisted
    built,      \* the templates the template builder has built
    reqs,       \* number of HTTP requests made
    history,    \* TransitionChecker._transition_history
    recorded,   \* every transition record_transition was called with, in order
    dres,       \* the last TransitionChecker or StateMachine call and its result
    nres,       \* the last TreeNormalizer.normalize call: argument and result
    sres,       \* two trees and the signatures SignatureGenerator gave them
    diffres,    \* two trees and what DiffEngine.diff returned for them
    vres,       \* a template and what TemplateValidator said of it
    loader,     \* the TemplateLoader, the dicts it made, the template files
    lth,        \* the threads that call the TemplateLoader
    blocked     \* per client, since when the limiter has turned it away

logVars == <<file, log, appends, foreign, tampered, loaded, th>>
rateVars == <<clock, requests, accepted, resp, calls, ticks>>
keyVars == <<keys_file, km, issued, revoked, kres, kth, hits>>
httpVars == <<hres, captures, built, reqs>>
apiVars == <<rateVars, keyVars, httpVars>>
driftVars == <<history, recorded, dres>>
baselineVars == <<sres, diffres, vres, loader, lth>>
coreVars == <<driftVars, nres, baselineVars, blocked>>
vars == <<logVars, lastOp, apiVars, coreVars>>

\* ------------------------------------------------------- Python values
PyNone == [ty |-> "none", n |-> 0]
PyInt(n) == [ty |-> "int", n |-> n]
PyTuple(n) == [ty |-> "tuple", n |-> n]     \* the tuple (n,)
PyList(n) == [ty |-> "list", n |-> n]       \* the list [n]

\* str(v), as the f-string in add_entry and verify_entry formats a timestamp
Str(v) ==
    CASE v.ty = "none" -> [form |-> "None", n |-> 0]
      [] v.ty = "int" -> [form |-> "digits", n |-> v.n]
      [] v.ty = "tuple" -> [form |-> "(n,)", n |-> v.n]
      [] v.ty = "list" -> [form |-> "[n]", n |-> v.n]

\* Dict keys. A str key is its index in KeyNames, which lists the key names
\* in Python's str order; an int key is its value.
KeyNames == <<"10", "2", "data", "timestamp", "type">>
StrKey(name) == [int |-> FALSE, n |-> CHOOSE i \in DOMAIN KeyNames : KeyNames[i] = name]
IntKey(n) == [int |-> TRUE, n |-> n]
Decimal(n) == CASE n = 2 -> "2" [] n = 10 -> "10"

\* A dict is the sequence of its items [k, v] in insertion order.
HasKey(d, name) == \E i \in DOMAIN d : d[i].k = StrKey(name)
DictGet(d, name, default) ==
    IF HasKey(d, name)
    THEN d[CHOOSE i \in DOMAIN d : d[i].k = StrKey(name)].v
    ELSE default

\* ------------------------------------------------------------------ JSON
\* json.dumps turns an int key into its decimal string and a tuple into an
\* array; json.loads reads them back as a str key and a list.
JsonKey(k) == IF k.int THEN StrKey(Decimal(k.n)) ELSE k
JsonVal(v) == IF v.ty = "tuple" THEN PyList(v.n) ELSE v
JsonRoundTrip(d) == [i \in DOMAIN d |-> [k |-> JsonKey(d[i].k), v |-> JsonVal(d[i].v)]]

\* sorted(dict.items()): sort_keys orders the items by the keys as they are
\* in the dict, before they are turned into strings.
InsertItem(x, s) ==
    LET j == Cardinality({i \in DOMAIN s : s[i].k.n < x.k.n})
    IN SubSeq(s, 1, j) \o <<x>> \o SubSeq(s, j + 1, Len(s))
RECURSIVE SortItems(_)
SortItems(d) == IF d = <<>> THEN <<>> ELSE InsertItem(Head(d), SortItems(Tail(d)))

\* json.dumps(d, sort_keys=True): the text, as the sequence of its members
DumpsSorted(d) ==
    LET s == SortItems(d)
    IN [i \in DOMAIN s |-> [k |-> JsonKey(s[i].k).n, v |-> JsonVal(s[i].v)]]

\* ------------------------------------------------------------ HashChain
genesis_hash == <<>>
Sha256(previous_hash, data_str, timestamp_text) ==
    Append(previous_hash, [d |-> data_str, t |-> timestamp_text])

\* HashChain.add_entry: the new hash, from the chain's current hash
add_entry(current_hash, entry_data, timestamp) ==
    Sha256(current_hash, DumpsSorted(entry_data), Str(timestamp))

\* HashChain.verify_entry
verify_entry(entry_hash, entry_data, timestamp, previous_hash) ==
    Sha256(previous_hash, DumpsSorted(entry_data), Str(timestamp)) = entry_hash

\* ----------------------------------------------------- lines and entries
\* A line of the file as json.loads reads it, and an entry of _entries:
\*   json     "object" (a dict), "array" (a list or a string), "scalar"
\*            (a number, true, false, null), "invalid" (no JSON), "blank"
\*   has      the keys the dict holds; nulls: those whose value is null
\*   wrapped  _load_existing wrapped the dict as {"data": <the dict>}
\*   extra    the other keys of a raw event
BlankEntry ==
    [json |-> "object", wrapped |-> FALSE, has |-> {}, nulls |-> {},
     entry_hash |-> genesis_hash, previous_hash |-> genesis_hash,
     timestamp |-> PyNone, data |-> <<>>, entry_id |-> 0, extra |-> <<>>]

OtherLine(kind) == [BlankEntry EXCEPT !.json = kind]

\* entry.get(key) is None
IsNone(entry, key) ==
    IF entry.wrapped THEN key # "data"
    ELSE \/ key \notin entry.has
         \/ key \in entry.nulls
         \/ (key = "timestamp" /\ entry.timestamp = PyNone)

\* HashChain.verify_chain: "true", "false", or "raise" when an entry is no dict
RECURSIVE VerifyFrom(_, _, _)
VerifyFrom(entries, idx, previous_hash) ==
    IF idx > Len(entries) THEN "true"
    ELSE LET entry == entries[idx] IN
        IF entry.json # "object" THEN "raise"
        ELSE IF IsNone(entry, "entry_hash") THEN "false"
        ELSE IF IsNone(entry, "data") \/ IsNone(entry, "timestamp") THEN
            IF idx > 1 /\ ~IsNone(entry, "previous_hash")
                  /\ entry.previous_hash # previous_hash
            THEN "false"
            ELSE VerifyFrom(entries, idx + 1, entry.entry_hash)
        ELSE IF ~verify_entry(entry.entry_hash, entry.data, entry.timestamp, previous_hash)
        THEN "false"
        ELSE VerifyFrom(entries, idx + 1, entry.entry_hash)

verify_chain(entries) == VerifyFrom(entries, 1, genesis_hash)

\* ImmutableLog.verify_integrity of a log object
verify_integrity(l) == IF l.load_error THEN "false" ELSE verify_chain(l.entries)

\* ---------------------------------------------------------- EventWriter
\* EventWriter.write: the dict after enrichment (a timestamp and an entry_id
\* when missing), which is also the dict the caller holds
Enrich(event_dict, write_count, now) ==
    [event_dict EXCEPT
        !.has = @ \cup {"timestamp", "entry_id"},
        !.timestamp = IF "timestamp" \in event_dict.has THEN @ ELSE PyInt(now),
        !.entry_id = IF "entry_id" \in event_dict.has THEN @ ELSE write_count + 1]

\* the line json.dumps writes, as json.loads reads it back
JsonLine(event_dict) ==
    [event_dict EXCEPT
        !.timestamp = JsonVal(@),
        !.data = JsonRoundTrip(@),
        !.extra = JsonRoundTrip(@)]

\* ---------------------------------------------------------- ImmutableLog
NoLog ==
    [exists |-> FALSE, entries |-> <<>>, current_hash |-> genesis_hash,
     chain_length |-> 0, load_error |-> FALSE, handle |-> FALSE, write_count |-> 0]

\* the dict _load_existing appends for a line that parsed to a dict
Normalize(line) == IF "data" \notin line.has THEN [line EXCEPT !.wrapped = TRUE] ELSE line

\* 'entry_hash' in normalized, for a dict
CarriesHash(normalized) == ~normalized.wrapped /\ "entry_hash" \in normalized.has

\* _load_existing: the loop over the lines. An exception that is not a
\* JSONDecodeError leaves the loop (the outer except swallows it).
RECURSIVE LoadLines(_, _)
LoadLines(lines, l) ==
    IF lines = <<>> THEN l
    ELSE LET line == Head(lines) IN
        CASE line.json = "blank" -> LoadLines(Tail(lines), l)
          [] line.json = "invalid" ->
                LoadLines(Tail(lines), [l EXCEPT !.load_error = TRUE])
          [] line.json = "scalar" -> [l EXCEPT !.entries = Append(@, line)]
          [] line.json = "array" ->
                LoadLines(Tail(lines), [l EXCEPT !.entries = Append(@, line)])
          [] line.json = "object" ->
                LET normalized == Normalize(line)
                    l2 == [l EXCEPT !.entries = Append(@, normalized)]
                IN LoadLines(Tail(lines),
                      IF CarriesHash(normalized)
                      THEN [l2 EXCEPT !.current_hash = normalized.entry_hash,
                                      !.chain_length = @ + 1]
                      ELSE l2)

\* ImmutableLog.__init__ on the file
OpenLog(lines) == LoadLines(lines, [NoLog EXCEPT !.exists = TRUE, !.handle = TRUE])

\* (mutant) the test on _entries inverted
RecordedPreviousInverted(l, previous_hash) ==
    IF l.entries = <<>> THEN previous_hash ELSE genesis_hash

\* the previous_hash append records in the entry
RecordedPrevious(l, previous_hash) ==
    IF l.entries # <<>> THEN previous_hash ELSE genesis_hash

\* the log_entry dict append builds from what it computed
LogEntryDict(entry_hash, previous_hash, timestamp, event_dict) ==
    [BlankEntry EXCEPT
        !.has = {"entry_hash", "previous_hash", "timestamp", "data"},
        !.entry_hash = entry_hash,
        !.previous_hash = previous_hash,
        !.timestamp = timestamp,
        !.data = event_dict]

\* ... in a call that no other call interleaves with
MakeLogEntry(l, event_dict, timestamp) ==
    LogEntryDict(add_entry(l.current_hash, event_dict, timestamp),
                 RecordedPrevious(l, l.current_hash), timestamp, event_dict)

\* event_dict.get('timestamp', time.time())
EventTimestamp(event_dict, now) == DictGet(event_dict, "timestamp", PyInt(now))

\* ImmutableLog.append as one call: the log object afterwards
AppendLog(l, event_dict, now) ==
    LET timestamp == EventTimestamp(event_dict, now)
        log_entry == Enrich(MakeLogEntry(l, event_dict, timestamp), l.write_count, now)
    IN [l EXCEPT
        !.current_hash = log_entry.entry_hash,
        !.chain_length = @ + 1,
        !.handle = TRUE,
        !.write_count = @ + 1,
        !.entries = Append(@, log_entry)]

\* the line that call writes
AppendLine(l, event_dict, now) ==
    LET timestamp == EventTimestamp(event_dict, now)
    IN JsonLine(Enrich(MakeLogEntry(l, event_dict, timestamp), l.write_count, now))

\* -------------------------------------------------------------- payloads
PlainEvent == <<[k |-> StrKey("data"), v |-> PyInt(1)]>>
StampedEvent == <<[k |-> StrKey("data"), v |-> PyInt(1)],
                  [k |-> StrKey("timestamp"), v |-> PyInt(5)]>>
NullStampEvent == <<[k |-> StrKey("timestamp"), v |-> PyNone]>>
IntKeyEvent == <<[k |-> IntKey(2), v |-> PyInt(1)], [k |-> IntKey(10), v |-> PyInt(1)]>>
TupleStampEvent == <<[k |-> StrKey("timestamp"), v |-> PyTuple(1)]>>

\* dicts that json.loads(json.dumps(d)) gives back unchanged
JsonNativeEvents == {PlainEvent, StampedEvent, NullStampEvent}
\* dicts json.dumps accepts
Events == JsonNativeEvents \cup {IntKeyEvent, TupleStampEvent}

Times == 1..MaxTime

\* ----------------------------------------------------------- RateLimiter
\* client ids: an API key presented in X-API-Key, or a remote address
Clients == {"k1", "k2", "k0", "10.0.0.1"}

\* _cleanup_old_requests: the queue without its leading old timestamps
RECURSIVE CleanupOld(_, _)
CleanupOld(queue, current_time) ==
    IF queue # <<>> /\ Head(queue) < current_time - window_size
    THEN CleanupOld(Tail(queue), current_time)
    ELSE queue

\* recent_count of check_rate_limit and get_stats
RecentCount(queue, current_time) ==
    Cardinality({i \in DOMAIN queue : queue[i] > current_time - BurstWindow})

\* (mutant) the burst test off by one
VerdictOffByOne(queue, current_time) ==
    IF RecentCount(queue, current_time) > burst_size THEN "burst"
    ELSE IF Len(queue) >= requests_per_minute THEN "minute"
    ELSE "ok"

\* check_rate_limit, lines 61-70: which limit rejects the call, on the
\* cleaned queue
Verdict(queue, current_time) ==
    IF RecentCount(queue, current_time) >= burst_size THEN "burst"
    ELSE IF Len(queue) >= requests_per_minute THEN "minute"
    ELSE "ok"

\* (mutant) the timestamp is recorded before the limits are tested
QueueAfterCheckRecordsFirst(queue, current_time) ==
    Append(CleanupOld(queue, current_time), current_time)

\* check_rate_limit: the client's queue after the call
QueueAfterCheck(queue, current_time) ==
    LET cleaned == CleanupOld(queue, current_time)
    IN IF Verdict(cleaned, current_time) = "ok"
       THEN Append(cleaned, current_time)
       ELSE cleaned

\* (mutant) the limits are tested on the queue as it was left, old
\* timestamps included
CheckVerdictUncleaned(queue, current_time) == Verdict(queue, current_time)

\* check_rate_limit: its answer
CheckVerdict(queue, current_time) == Verdict(CleanupOld(queue, current_time), current_time)

NoResponse == [client |-> "none", verdict |-> "none"]

\* what is remembered of a client's rejections: the time of the first one
\* whose window has not yet been outlived (first), the time of the first one
\* since the client's last accepted call (since), whether another rejection
\* followed that one (again); and of the client's last call: whether it came
\* more than window_size seconds after first (late) or after since
\* (late_since), whether rejections had followed since (after_more), and
\* whether it came BurstWindow seconds or more after the last accepted call
\* with fewer than requests_per_minute accepted calls in the window (calm)
NotBlocked ==
    [first |-> <<>>, since |-> <<>>, again |-> FALSE, late |-> FALSE,
     late_since |-> FALSE, after_more |-> FALSE, calm |-> FALSE]

InitRatePart ==
    /\ blocked = [c \in Clients |-> NotBlocked]
    /\ clock = 0
    /\ requests = [c \in Clients |-> <<>>]
    /\ accepted = [c \in Clients |-> <<>>]
    /\ resp = NoResponse
    /\ calls = 0
    /\ ticks = 0

\* --------------------------------------------------------- APIKeyManager
Roles == {"admin", "operator", "readonly"}
Keys == {"k1", "k2"}                 \* plaintext keys generate_key returns
UnknownKey == "k0"                   \* a key that was never issued
hash_key(key) == [sha256 |-> key]
KeyHashes == {hash_key(key) : key \in Keys \cup {UnknownKey}}

\* a record of data["keys"]; last_used is <<>> for None. name, description
\* and created_at are written once and never read by the manager.
NoRecord == [present |-> FALSE, role |-> "none", use_count |-> 0, last_used |-> <<>>]
NewRecord(role) == [present |-> TRUE, role |-> role, use_count |-> 0, last_used |-> <<>>]
EmptyStore == [h \in KeyHashes |-> NoRecord]

\* The dicts _load_keys returns are objects: the cache and every caller
\* that got the cached dict hold the same one.
ObjIds == {1, 2, 3, 4}
NoObj == 0
NoManager ==
    [heap |-> [o \in ObjIds |-> EmptyStore], cache |-> NoObj, cache_time |-> 0]
NoKeyFile == [exists |-> FALSE, keys |-> EmptyStore]

\* the objects some thread still holds
Held(threads) == {threads[t].data : t \in DOMAIN threads} \ {NoObj}

\* dicts nobody refers to any more are gone
Collect(m, held) ==
    [m EXCEPT !.heap = [o \in ObjIds |->
        IF o = m.cache \/ o \in held THEN m.heap[o] ELSE EmptyStore]]

FreshObj(m, held) == CHOOSE o \in ObjIds : o # m.cache /\ o \notin held

\* _load_keys, lines 49-53: the cached dict is returned
CacheFresh(m, t) == m.cache # NoObj /\ t - m.cache_time < cache_ttl

\* _load_keys: the dict it returns and the manager afterwards
load_keys(kf, m, held, t) ==
    IF ~kf.exists
    THEN LET o == FreshObj(m, held)
         IN [obj |-> o, km |-> [m EXCEPT !.heap[o] = EmptyStore]]
    ELSE IF CacheFresh(m, t)
    THEN [obj |-> m.cache, km |-> m]
    ELSE LET o == FreshObj(m, held)
         IN [obj |-> o,
             km |-> [m EXCEPT !.heap[o] = kf.keys, !.cache = o, !.cache_time = t]]

\* _save_keys, lines 72-74: the file it writes
WrittenFile(kf, data) == [exists |-> TRUE, keys |-> data]

\* _save_keys, lines 76-78: the cache dropped
Invalidate(m) == [m EXCEPT !.cache = NoObj, !.cache_time = 0]

\* lines 150-151 of validate_key
Stamped(record, t) == [record EXCEPT !.last_used = <<t>>]
Bumped(record, count) == [record EXCEPT !.use_count = count + 1]

\* create_key with a valid role, as one call: file and manager afterwards
create_key(kf, m, key, role, t) ==
    LET ld == load_keys(kf, m, {}, t)
        data == [ld.km.heap[ld.obj] EXCEPT ![hash_key(key)] = NewRecord(role)]
    IN [file |-> WrittenFile(kf, data),
        km |-> Collect(Invalidate([ld.km EXCEPT !.heap[ld.obj] = data]), {})]

\* validate_key as one call: what it returns, file and manager afterwards
validate_key(kf, m, key, t) ==
    LET ld == load_keys(kf, m, {}, t)
        h == hash_key(key)
        metadata == ld.km.heap[ld.obj][h]
        updated == Bumped(Stamped(metadata, t), metadata.use_count)
        data == [ld.km.heap[ld.obj] EXCEPT ![h] = updated]
    IN IF key = "" \/ ~metadata.present
       THEN [ret |-> "none", meta |-> NoRecord, file |-> kf,
             km |-> Collect(IF key = "" THEN m ELSE ld.km, {})]
       ELSE [ret |-> "meta", meta |-> updated, file |-> WrittenFile(kf, data),
             km |-> Collect(Invalidate([ld.km EXCEPT !.heap[ld.obj] = data]), {})]

\* (mutant) revoke_key deletes the record from the dict and does not save
revoke_key_unsaved(kf, m, key, t) ==
    LET ld == load_keys(kf, m, {}, t)
        h == hash_key(key)
        data == [ld.km.heap[ld.obj] EXCEPT ![h] = NoRecord]
    IN IF ld.km.heap[ld.obj][h].present
       THEN [ret |-> "true", file |-> kf,
             km |-> Collect([ld.km EXCEPT !.heap[ld.obj] = data], {})]
       ELSE [ret |-> "false", file |-> kf, km |-> Collect(ld.km, {})]

\* revoke_key as one call: what it returns, file and manager afterwards
revoke_key(kf, m, key, t) ==
    LET ld == load_keys(kf, m, {}, t)
        h == hash_key(key)
        data == [ld.km.heap[ld.obj] EXCEPT ![h] = NoRecord]
    IN IF ld.km.heap[ld.obj][h].present
       THEN [ret |-> "true", file |-> WrittenFile(kf, data),
             km |-> Collect(Invalidate([ld.km EXCEPT !.heap[ld.obj] = data]), {})]
       ELSE [ret |-> "false", file |-> kf, km |-> Collect(ld.km, {})]

\* list_keys as one call: the hashes it lists, and the manager afterwards
list_keys(kf, m, t) ==
    LET ld == load_keys(kf, m, {}, t)
    IN [listed |-> {h \in KeyHashes : ld.km.heap[ld.obj][h].present},
        km |-> Collect(ld.km, {})]

KeyThreads == {1, 2}
IdleKeyThread == [pc |-> "idle", key |-> "", data |-> NoObj, count |-> 0]
NoKeyResult == [op |-> "none", key |-> "", ret |-> "none", meta |-> NoRecord,
                cached |-> FALSE]

InitKeysPart ==
    /\ keys_file = NoKeyFile
    /\ km = NoManager
    /\ issued = {}
    /\ revoked = {}
    /\ kres = NoKeyResult
    /\ kth = [t \in KeyThreads |-> IdleKeyThread]
    /\ hits = [key \in Keys |-> 0]

\* ------------------------------------------------------------ HTTP API
Hosts == {"10.0.0.1"}
Endpoints == {"status", "captures", "templates", "token", "keys", "validate"}

\* the routes that declare Depends(verify_api_key)
Protected == {"captures", "templates", "token", "keys", "validate"}

\* (mutant) the handlers do not test the role
AllowedRolesUntested(endpoint) == Roles

\* the role tests of create_capture, build_template, create_token and
\* list_keys
AllowedRoles(endpoint) ==
    IF endpoint \in {"captures", "templates"} THEN {"operator", "admin"}
    ELSE IF endpoint \in {"token", "keys"} THEN {"admin"}
    ELSE Roles

\* a request: remote address, X-API-Key header ("" when absent), api_key
\* argument of verify_api_key ("" when absent), route, whether
\* Content-Length exceeds the limit, the role a token request asks for, and
\* whether the recorder or the template builder raises on this input
HttpRequests ==
    {req \in [host : Hosts, header_key : {"", "k1", "k2", UnknownKey},
              api_key : {"", "k1"}, endpoint : Endpoints, oversize : BOOLEAN,
              role : {"", "operator", "bogus"}, fails : BOOLEAN] :
        /\ req.endpoint # "token" => req.role = ""
        /\ req.endpoint \notin {"captures", "templates"} => ~req.fails}

\* RateLimitMiddleware.dispatch, lines 114-116
ClientId(req) == IF req.header_key # "" THEN req.header_key ELSE req.host

\* verify_api_key, lines 223-224
PresentedKey(req) == IF req.api_key # "" THEN req.api_key ELSE req.header_key

\* create_token: request.role or Role.READONLY
TokenRole(req) == IF req.role = "" THEN "readonly" ELSE req.role

\* The middleware stack, outermost first: request-size cap, rate limiter,
\* CORS, request logging; then the route with its dependency. What stops
\* the request, or "ok"/"bad_request"/"server_error" from the handler.
Outcome(req, verdict, auth) ==
    IF req.oversize THEN "too_large"
    ELSE IF verdict # "ok" THEN "rate_limited"
    ELSE IF req.endpoint \notin Protected THEN "ok"
    ELSE IF PresentedKey(req) = "" THEN "unauthenticated"
    ELSE IF auth.ret = "none" THEN "invalid_key"
    ELSE IF auth.meta.role \notin AllowedRoles(req.endpoint) THEN "forbidden"
    ELSE IF req.endpoint = "token" /\ TokenRole(req) \notin Roles THEN "bad_request"
    ELSE IF req.fails THEN "server_error"
    ELSE "ok"

\* the status_code of the HTTPException raised, or of the response
Status(outcome) ==
    CASE outcome = "too_large" -> 413
      [] outcome = "rate_limited" -> 429
      [] outcome = "unauthenticated" -> 401
      [] outcome = "invalid_key" -> 403
      [] outcome = "forbidden" -> 403
      [] outcome = "bad_request" -> 400
      [] outcome = "server_error" -> 500
      [] OTHER -> 200

\* the stages that ran, in order
Stages(req, outcome) ==
    IF outcome = "too_large" THEN <<"size">>
    ELSE IF outcome = "rate_limited" THEN <<"size", "rate">>
    ELSE IF outcome = "unauthenticated" \/ outcome = "invalid_key"
    THEN <<"size", "rate", "logging", "auth">>
    ELSE IF req.endpoint \in Protected
    THEN <<"size", "rate", "logging", "auth", "handler">>
    ELSE <<"size", "rate", "logging", "handler">>

NoHttpResult ==
    [client |-> "none", key |-> "", outcome |-> "none", stages |-> <<>>,
     discarded |-> 0, endpoint |-> "none", status |-> 0,
     request_id |-> FALSE, listed |-> {}]

InitHttpPart ==
    /\ hres = NoHttpResult
    /\ captures = 0
    /\ built = 0
    /\ reqs = 0

InitApiPart == InitRatePart /\ InitKeysPart /\ InitHttpPart

\* ------------------------------------------------------ TransitionChecker
Screens == {"A", "B", "C", "end"}

\* f"{from_id} -> {to_id}"
Arrow(from_id, to_id) == from_id \o " -> " \o to_id

\* A template and a template store are dicts: functions on their keys.
EmptyDict == [key \in {} |-> 0]
Get(d, key, default) == IF key \in DOMAIN d THEN d[key] ELSE default
\* bool(v) of a dict or a list; None is modelled as the empty dict, both
\* being false
Truthy(v) == DOMAIN v # {}

\* An Optional field: None, or a value
Absent == <<>>
Some(v) == <<v>>

\* seq[start:], with Python's reading of a negative start
SliceFrom(seq, start) ==
    LET from == IF start < 0
                THEN (IF Len(seq) + start < 0 THEN 0 ELSE Len(seq) + start)
                ELSE (IF start > Len(seq) THEN Len(seq) ELSE start)
    IN SubSeq(seq, from + 1, Len(seq))

TransitionResult(is_valid, reason, expected, actual) ==
    [is_valid |-> is_valid, reason |-> reason, expected |-> expected,
     actual |-> actual]

\* The first argument is a dict (the old calling style) or a screen id.
TemplateArg(template) == [dict |-> TRUE, template |-> template, screen_id |-> ""]
ScreenArg(screen_id) == [dict |-> FALSE, template |-> EmptyDict, screen_id |-> screen_id]

check_transition(from_id, to_id, templates) ==
    IF from_id.dict
    THEN LET from_template == from_id.template
             from_screen_id == Get(from_template, "screen_id", "unknown")
             valid_transitions == Get(from_template, "valid_transitions", <<>>)
         IN IF ~Truthy(from_template)
            THEN TransitionResult(TRUE, Some("No source template (initial state)"),
                                  Absent, Absent)
            ELSE IF ~Truthy(valid_transitions)
            THEN TransitionResult(TRUE, Some("No transition restrictions"),
                                  Absent, Absent)
            ELSE IF \E i \in DOMAIN valid_transitions : valid_transitions[i] = to_id
            THEN TransitionResult(TRUE, Absent, Some(valid_transitions), Some(to_id))
            ELSE TransitionResult(FALSE,
                    Some("Unexpected transition: " \o Arrow(from_screen_id, to_id)),
                    Some(valid_transitions), Some(to_id))
    ELSE LET from_template == Get(templates, from_id.screen_id, EmptyDict)
             valid_transitions == Get(from_template, "valid_transitions", <<>>)
         IN IF ~Truthy(from_template)
            THEN TransitionResult(TRUE, Some("Source template not found"),
                                  Absent, Absent)
            ELSE IF \E i \in DOMAIN valid_transitions : valid_transitions[i] = to_id
            THEN TransitionResult(TRUE, Absent, Some(valid_transitions), Some(to_id))
            ELSE TransitionResult(FALSE,
                    Some("Unexpected transition: " \o Arrow(from_id.screen_id, to_id)),
                    Some(valid_transitions), Some(to_id))

\* StateMachine.is_valid_transition
is_valid_transition(template, to_screen_id) ==
    LET valid_transitions == Get(template, "valid_transitions", <<>>)
    IN IF ~Truthy(template) THEN TRUE
       ELSE IF ~Truthy(valid_transitions) THEN TRUE
       ELSE \E i \in DOMAIN valid_transitions : valid_transitions[i] = to_screen_id

\* record_transition dropping the newest entry of a full history
record_transition_keeps_oldest(transition_history, from_screen_id, to_screen_id, timestamp) ==
    LET appended == Append(transition_history,
                           <<from_screen_id, to_screen_id, timestamp>>)
    IN IF Len(appended) > max_history
       THEN SubSeq(appended, 1, max_history)
       ELSE appended

record_transition(transition_history, from_screen_id, to_screen_id, timestamp) ==
    LET appended == Append(transition_history,
                           <<from_screen_id, to_screen_id, timestamp>>)
    IN IF Len(appended) > max_history THEN Tail(appended) ELSE appended

get_transition_history(transition_history, count) ==
    SliceFrom(transition_history, 0 - count)

\* [t[0] for t in transitions]
SourceScreens(transitions) == [i \in DOMAIN transitions |-> transitions[i][1]]

\* the number of places where the sequence starts in the screen ids
Occurrences(sequence, screen_ids) ==
    Cardinality({i \in 1..(Len(screen_ids) - Len(sequence) + 1) :
                    SubSeq(screen_ids, i, i + Len(sequence) - 1) = sequence})

\* _is_repeating_sequence satisfied by a single occurrence
is_repeating_sequence_once(sequence, transitions) ==
    IF Len(sequence) < 2 THEN FALSE
    ELSE Occurrences(sequence, SourceScreens(transitions)) >= 1

is_repeating_sequence(sequence, transitions) ==
    IF Len(sequence) < 2 THEN FALSE
    ELSE Occurrences(sequence, SourceScreens(transitions)) >= 2

\* The pairs (i, j) of the two loops of detect_loops over n transitions, in
\* the order the loops visit them; i and j count from 0 as in the code.
LoopPairs(n) ==
    SelectSeq([k \in 1..(n * n) |-> <<(k - 1) \div n, (k - 1) % n>>],
              LAMBDA p : p[1] < n - 2 /\ p[2] >= p[1] + 2)

detect_loops(transition_history, window) ==
    IF Len(transition_history) < MinHistory THEN <<>>
    ELSE LET recent == SliceFrom(transition_history, 0 - window)
             sequence(p) == SourceScreens(SubSeq(recent, p[1] + 1, p[2]))
             found == SelectSeq(LoopPairs(Len(recent)),
                         LAMBDA p : is_repeating_sequence(sequence(p),
                                        SliceFrom(recent, p[1])))
         IN [k \in DOMAIN found |-> sequence(found[k])]

\* The loop over flow[:-1] leaves forced true exactly when no screen of it
\* has a template with other than one transition.
detect_forced_flow(transition_history, templates) ==
    IF Len(transition_history) < MinHistory THEN Absent
    ELSE LET recent == SliceFrom(transition_history, 0 - FlowWindow)
             flow == Append(SourceScreens(recent), recent[Len(recent)][2])
             forced ==
                \A k \in 1..(Len(flow) - 1) :
                    LET template == Get(templates, flow[k], EmptyDict)
                    IN \/ ~Truthy(template)
                       \/ Len(Get(template, "valid_transitions", <<>>)) = 1
         IN IF forced /\ Len(flow) >= MinFlow
            THEN Some([type |-> "forced_flow", flow |-> flow, length |-> Len(flow)])
            ELSE Absent

NoDriftResult == [op |-> "none", arg |-> <<>>, ret |-> <<>>]

InitDriftPart ==
    /\ history = <<>>
    /\ recorded = <<>>
    /\ dres = NoDriftResult

\* ---------------------------------------------------------- TreeNormalizer
transient_props == {"timestamp", "id", "instance_id", "hash"}
\* self._property_mappings.get(key, key)
property_mappings(key) ==
    IF key \in {"label", "title", "text", "description"} THEN "name" ELSE key

\* A tree and a node are dicts kept as the sequence of their items [k, v] in
\* insertion order. An item holds a string v or a list c of nodes: the
\* value of "children" is a list of nodes, the value of "root" is a node,
\* kept as the list of that one node, every other value is a string. None
\* is the empty sequence.
KeysOf(d) == {d[i].k : i \in DOMAIN d}
ListOf(d, key) ==
    IF key \in KeysOf(d) THEN d[CHOOSE i \in DOMAIN d : d[i].k = key].c ELSE <<>>
Lookup(d, key, default) ==
    IF key \in KeysOf(d) THEN d[CHOOSE i \in DOMAIN d : d[i].k = key].v ELSE default
\* d[key] = value: a key that is there keeps its place
SetItem(d, key, value) ==
    IF key \in KeysOf(d)
    THEN [i \in DOMAIN d |->
            IF d[i].k = key THEN [k |-> key, v |-> value, c |-> <<>>] ELSE d[i]]
    ELSE Append(d, [k |-> key, v |-> value, c |-> <<>>])
\* d[key] = nodes, for a list of nodes
SetList(d, key, nodes) ==
    IF key \in KeysOf(d)
    THEN [i \in DOMAIN d |->
            IF d[i].k = key THEN [k |-> key, v |-> "", c |-> nodes] ELSE d[i]]
    ELSE Append(d, [k |-> key, v |-> "", c |-> nodes])

\* The strings the sort keys are made of, in Python's str order
StrOrder == <<"", "a", "b", "l", "n", "t", "x", "y">>
StrIndex(str) == CHOOSE i \in DOMAIN StrOrder : StrOrder[i] = str
sort_key(node) ==
    <<Lookup(node, "role", ""), Lookup(node, "name", ""), Lookup(node, "type", "")>>
\* tuple comparison: the first differing component decides
KeyLess(a, b) ==
    \E i \in 1..3 :
        /\ \A j \in 1..(i - 1) : a[j] = b[j]
        /\ StrIndex(a[i]) < StrIndex(b[i])

\* sorted(children, key=sort_key): stable, a child goes behind every child
\* seen before it whose key is not greater
RECURSIVE sort_children(_)
sort_children(children) ==
    IF children = <<>> THEN <<>>
    ELSE LET n == Len(children)
             rest == sort_children(SubSeq(children, 1, n - 1))
             child == children[n]
         IN SelectSeq(rest, LAMBDA c : ~KeyLess(sort_key(child), sort_key(c)))
            \o <<child>>
            \o SelectSeq(rest, LAMBDA c : KeyLess(sort_key(child), sort_key(c)))

\* _normalize_node; NodeItems is its loop over node.items() from the i-th
\* item on, normalized being the dict built so far
RECURSIVE normalize_node(_)
RECURSIVE NodeItems(_, _, _)
NodeItems(node, i, normalized) ==
    IF i > Len(node) THEN normalized
    ELSE LET key == node[i].k
             value == node[i].v
             standard_key == property_mappings(key)
         IN IF key \in transient_props
            THEN NodeItems(node, i + 1, normalized)
            ELSE IF key = "children"
            THEN LET normalized_children ==
                        [j \in DOMAIN node[i].c |-> normalize_node(node[i].c[j])]
                 IN NodeItems(node, i + 1,
                        SetList(normalized, "children",
                            sort_children(SelectSeq(normalized_children,
                                                    LAMBDA c : c # <<>>))))
            ELSE NodeItems(node, i + 1, SetItem(normalized, standard_key, value))

normalize_node(node) ==
    IF node = <<>> THEN node ELSE NodeItems(node, 1, <<>>)

\* copy.deepcopy with the argument itself handed back
deepcopy_shared(obj) == [value |-> obj, same_object |-> TRUE]

\* copy.deepcopy: an equal value in a new object
deepcopy(obj) == [value |-> obj, same_object |-> FALSE]

\* normalize returns ret and leaves its argument as tree: the assignments
\* to normalized reach the argument when both are the same object
normalize(tree) ==
    IF tree = <<>> THEN [ret |-> <<>>, tree |-> tree]
    ELSE LET copied == deepcopy(tree)
             with_root ==
                IF "root" \in KeysOf(copied.value)
                THEN SetList(copied.value, "root",
                             <<normalize_node(Head(ListOf(copied.value, "root")))>>)
                ELSE copied.value
             normalized ==
                SelectSeq(with_root, LAMBDA item : item.k \notin transient_props)
         IN [ret |-> normalized,
             tree |-> IF copied.same_object THEN normalized ELSE tree]

NoNormResult ==
    [op |-> "none", tree |-> <<>>, after |-> <<>>, ret |-> <<>>, again |-> <<>>]

InitNormPart == nres = NoNormResult

\* ----------------------------------------------------------- paths in a tree
\* the node a tree is about: the root of an envelope, or the raw node
NodeOf(tree) == IF "root" \in KeysOf(tree) THEN Head(ListOf(tree, "root")) ELSE tree
\* A path is the sequence of child indices that leads from a node to a
\* node below it.
RECURSIVE PathsOf(_)
PathsOf(node) ==
    LET children == ListOf(node, "children")
    IN {<<>>} \cup UNION {{<<i>> \o path : path \in PathsOf(children[i])} :
                          i \in DOMAIN children}
RECURSIVE NodeAt(_, _)
NodeAt(node, path) ==
    IF path = <<>> THEN node
    ELSE NodeAt(ListOf(node, "children")[path[1]], Tail(path))
RECURSIVE ReplaceAt(_, _, _)
ReplaceAt(node, path, new) ==
    IF path = <<>> THEN new
    ELSE LET children == ListOf(node, "children")
         IN SetList(node, "children",
                [children EXCEPT ![path[1]] = ReplaceAt(@, Tail(path), new)])
\* the node with the child at the end of the path taken out of its list
RECURSIVE RemoveAt(_, _)
RemoveAt(node, path) ==
    LET children == ListOf(node, "children")
    IN IF Len(path) = 1
       THEN SetList(node, "children",
                SubSeq(children, 1, path[1] - 1)
                    \o SubSeq(children, path[1] + 1, Len(children)))
       ELSE SetList(node, "children",
                [children EXCEPT ![path[1]] = RemoveAt(@, Tail(path))])

\* ------------------------------------------------------ SignatureGenerator
ignore_properties == {"timestamp", "id", "instance_id", "focused"}

\* hashlib.sha256(text).hexdigest(): a signature stands for the text hashed.
\* The text is the empty byte string, or the data the JSON text or the
\* joined string was made from.
EmptyBytes == [empty |-> TRUE, data |-> <<>>]
Text(data) == [empty |-> FALSE, data |-> data]
Hexdigest(text) == [sha256 |-> text]

\* _canonicalize and json.dumps(sort_keys=True): the dict as a function on
\* its keys, which is what the text with sorted keys spells out
RECURSIVE canonicalize(_)
canonicalize(obj) ==
    [key \in KeysOf(obj) \ ignore_properties |->
        CASE key = "children" ->
                [i \in DOMAIN ListOf(obj, key) |-> canonicalize(ListOf(obj, key)[i])]
          [] key = "root" -> canonicalize(Head(ListOf(obj, key)))
          [] OTHER -> Lookup(obj, key, "")]

generate(normalized_tree) ==
    IF normalized_tree = <<>> THEN Hexdigest(EmptyBytes)
    ELSE Hexdigest(Text(canonicalize(normalized_tree)))

\* _extract_structure: type and role, None where the dict has none, and
\* the structures of the children when the dict has a "children" list
RECURSIVE extract_structure(_)
extract_structure(obj) ==
    LET type == IF "type" \in KeysOf(obj) THEN Some(Lookup(obj, "type", "")) ELSE Absent
        role == IF "role" \in KeysOf(obj) THEN Some(Lookup(obj, "role", "")) ELSE Absent
    IN IF "children" \in KeysOf(obj)
       THEN [type |-> type, role |-> role,
             children |-> [i \in DOMAIN ListOf(obj, "children") |->
                              extract_structure(ListOf(obj, "children")[i])]]
       ELSE [type |-> type, role |-> role]

generate_structural(normalized_tree) ==
    IF normalized_tree = <<>> THEN Hexdigest(EmptyBytes)
    ELSE Hexdigest(Text(extract_structure(normalized_tree)))

\* _extract_content: the names, the dict's own first and then those below
\* its "children"
RECURSIVE extract_content(_)
RECURSIVE ContentOfList(_)
ContentOfList(children) ==
    IF children = <<>> THEN <<>>
    ELSE extract_content(Head(children)) \o ContentOfList(Tail(children))
extract_content(obj) ==
    (IF "name" \in KeysOf(obj) /\ Lookup(obj, "name", "") # ""
     THEN <<Lookup(obj, "name", "")>> ELSE <<>>)
        \o ContentOfList(ListOf(obj, "children"))

\* sorted(content)
RECURSIVE SortedStrings(_)
SortedStrings(strings) ==
    IF strings = <<>> THEN <<>>
    ELSE LET n == Len(strings)
             rest == SortedStrings(SubSeq(strings, 1, n - 1))
             last == strings[n]
         IN SelectSeq(rest, LAMBDA str : StrIndex(str) <= StrIndex(last))
            \o <<last>>
            \o SelectSeq(rest, LAMBDA str : StrIndex(str) > StrIndex(last))

\* '|'.join(sorted(content)): the empty string for no content
generate_content(normalized_tree) ==
    IF normalized_tree = <<>> THEN Hexdigest(EmptyBytes)
    ELSE LET content == extract_content(normalized_tree)
         IN IF content = <<>> THEN Hexdigest(EmptyBytes)
            ELSE Hexdigest(Text(SortedStrings(content)))

generate_multi(normalized_tree) ==
    [full |-> generate(normalized_tree),
     structural |-> generate_structural(normalized_tree),
     content |-> generate_content(normalized_tree)]

NoSignatures ==
    [op |-> "none", tree_a |-> <<>>, tree_b |-> <<>>, path |-> <<>>,
     a |-> generate_multi(<<>>), b |-> generate_multi(<<>>)]

\* -------------------------------------------------------------- DiffEngine
compare_properties == {"role", "name", "type", "visible", "enabled", "value"}

\* node.get(prop): None where the dict has no such key
PropertyOf(node, prop) ==
    IF prop \in KeysOf(node) THEN Some(Lookup(node, prop, "")) ELSE Absent

\* _nodes_similar: the same role or the same type, "" standing for a missing one
nodes_similar(node_a, node_b) ==
    \/ Lookup(node_a, "role", "") = Lookup(node_b, "role", "")
    \/ Lookup(node_a, "type", "") = Lookup(node_b, "type", "")

properties_changed(node_a, node_b) ==
    \E prop \in compare_properties :
        PropertyOf(node_a, prop) # PropertyOf(node_b, prop)

get_property_changes(node_a, node_b) ==
    [prop \in {q \in compare_properties :
                   PropertyOf(node_a, q) # PropertyOf(node_b, q)} |->
        <<PropertyOf(node_a, prop), PropertyOf(node_b, prop)>>]

\* {"path": path, "node": node}; a path "root[i][j]" is kept as <<i, j>>.
\* The trees diff puts into a list as they are carry entry = FALSE.
DiffEntry(path, node) == [path |-> path, node |-> node, entry |-> TRUE]
WholeTree(tree) == [path |-> <<>>, node |-> tree, entry |-> FALSE]
NoChanges == [added |-> <<>>, removed |-> <<>>, modified |-> <<>>, unchanged |-> 0]

\* _diff_nodes and _diff_children for dicts: the lists the calls append to
\* and the count of unchanged nodes are threaded through as found
RECURSIVE diff_nodes(_, _, _, _)
RECURSIVE diff_children(_, _, _, _, _)
diff_nodes(node_a, node_b, found, path) ==
    IF ~nodes_similar(node_a, node_b)
    THEN [found EXCEPT !.removed = Append(@, DiffEntry(path, node_a)),
                       !.added = Append(@, DiffEntry(path, node_b))]
    ELSE LET here ==
                IF properties_changed(node_a, node_b)
                THEN [found EXCEPT !.modified = Append(@,
                        [path |-> path,
                         changes |-> get_property_changes(node_a, node_b),
                         node |-> node_b])]
                ELSE [found EXCEPT !.unchanged = @ + 1]
         IN diff_children(ListOf(node_a, "children"), ListOf(node_b, "children"),
                          here, path, 0)
diff_children(children_a, children_b, found, parent_path, i) ==
    IF i >= Len(children_a) /\ i >= Len(children_b) THEN found
    ELSE LET child_path == Append(parent_path, i)
             next ==
                IF i >= Len(children_a)
                THEN [found EXCEPT
                        !.added = Append(@, DiffEntry(child_path, children_b[i + 1]))]
                ELSE IF i >= Len(children_b)
                THEN [found EXCEPT
                        !.removed = Append(@, DiffEntry(child_path, children_a[i + 1]))]
                ELSE diff_nodes(children_a[i + 1], children_b[i + 1], found, child_path)
         IN diff_children(children_a, children_b, next, parent_path, i + 1)

\* a similarity is the fraction num / den
Fraction(num, den) == [num |-> num, den |-> den]
DiffResult(found, similarity) ==
    [added |-> found.added, removed |-> found.removed, modified |-> found.modified,
     unchanged |-> found.unchanged, similarity |-> similarity]

diff(tree_a, tree_b) ==
    IF tree_a = <<>> /\ tree_b = <<>> THEN DiffResult(NoChanges, Fraction(1, 1))
    ELSE IF tree_a = <<>>
    THEN DiffResult([NoChanges EXCEPT !.added = <<WholeTree(tree_b)>>], Fraction(0, 1))
    ELSE IF tree_b = <<>>
    THEN DiffResult([NoChanges EXCEPT !.removed = <<WholeTree(tree_a)>>], Fraction(0, 1))
    ELSE LET found == diff_nodes(NodeOf(tree_a), NodeOf(tree_b), NoChanges, <<>>)
             total_changes ==
                Len(found.added) + Len(found.removed) + Len(found.modified)
             total_nodes ==
                IF total_changes + found.unchanged > 0
                THEN total_changes + found.unchanged ELSE 1
         IN DiffResult(found, Fraction(total_nodes - total_changes, total_nodes))

NoDiff ==
    [op |-> "none", tree_a |-> <<>>, tree_b |-> <<>>, path |-> <<>>,
     child |-> <<>>, ret |-> diff(<<>>, <<>>)]

\* ---------------------------------------------------------- TemplateLoader
\* The templates directory holds one YAML file per screen; a file is kept
\* as the version of the template it holds. The index _cache is one dict
\* object for the life of the loader: screen_id -> version, 0 for no entry.
TemplateFiles == <<"a.yaml", "b.yaml">>
ScreenOf(yaml_file) == IF yaml_file = "a.yaml" THEN "A" ELSE "B"
IndexedScreens == {ScreenOf(TemplateFiles[i]) : i \in DOMAIN TemplateFiles}
NoEntry == 0
EmptyIndex == [screen_id \in IndexedScreens |-> NoEntry]
\* the index load_all builds from the directory
IndexOf(dir) ==
    [screen_id \in IndexedScreens |->
        dir[CHOOSE i \in DOMAIN TemplateFiles : ScreenOf(TemplateFiles[i]) = screen_id]]
\* list(index.keys())
KeysOfIndex(index) == {screen_id \in IndexedScreens : index[screen_id] # NoEntry}

\* TemplateLoader.__init__
NewLoader(dir) == [cache |-> EmptyIndex, loaded |-> FALSE, dir |-> dir]
\* a thread inside a call of the loader
IdleLoaderThread == [pc |-> "idle", op |-> "none", screen_id |-> "", todo |-> <<>>]
NoObservation ==
    [op |-> "none", screen_id |-> "", index |-> EmptyIndex, during |-> FALSE]
NoLoaderThreads ==
    [reloader |-> IdleLoaderThread, reader |-> IdleLoaderThread,
     old |-> EmptyIndex, held |-> FALSE, held_index |-> EmptyIndex,
     seen |-> NoObservation]

\* ------------------------------------------------------- TemplateValidator
\* A value of a template field: a str, an int, None, or a list of such
\* values. A template is a dict kept as one Optional per field the
\* validator reads, or it is None; a dict with no field is the empty dict.
StrValue(str) == [ty |-> "str", s |-> str, items |-> <<>>]
IntValue == [ty |-> "int", s |-> "", items |-> <<>>]
NoneValue == [ty |-> "none", s |-> "", items |-> <<>>]
ListValue(items) == [ty |-> "list", s |-> "", items |-> items]
IsStr(value) == value.ty = "str"
IsList(value) == value.ty = "list"
\* not value
Falsy(value) ==
    \/ value.ty = "none"
    \/ value.ty = "str" /\ value.s = ""
    \/ value.ty = "list" /\ value.items = <<>>

TemplateFields ==
    {"screen_id", "required_nodes", "structure_signature", "valid_transitions"}
TemplateDict(screen_id, required_nodes, structure_signature, valid_transitions) ==
    [py |-> "dict", screen_id |-> screen_id, required_nodes |-> required_nodes,
     structure_signature |-> structure_signature,
     valid_transitions |-> valid_transitions]
NoneTemplate == [TemplateDict(Absent, Absent, Absent, Absent) EXCEPT !.py = "none"]
\* field in template, template[field], template.get(field)
HasField(template, field) == template[field] # Absent
FieldOf(template, field) == template[field][1]
GetField(template, field) ==
    IF HasField(template, field) THEN FieldOf(template, field) ELSE NoneValue
\* not template or not isinstance(template, dict)
NoTemplate(template) ==
    \/ template.py # "dict"
    \/ \A field \in TemplateFields : ~HasField(template, field)

\* text.split(" -> "): the parts, none of which holds the arrow, that
\* joined by the arrow give the text
TextParts == {"", "A", "B", "X"}
PartLists == UNION {[1..n -> TextParts] : n \in 1..MaxParts}
RECURSIVE JoinParts(_)
JoinParts(parts) ==
    IF Len(parts) = 1 THEN parts[1] ELSE Arrow(parts[1], JoinParts(Tail(parts)))
split(text) == CHOOSE parts \in PartLists : JoinParts(parts) = text
\* " -> " in text
HasArrow(text) == Len(split(text)) > 1

required_fields == {"screen_id"}
validate_required_fields(template) ==
    \A field \in required_fields : HasField(template, field)

validate_field_types(template) ==
    /\ HasField(template, "screen_id") => IsStr(FieldOf(template, "screen_id"))
    /\ HasField(template, "required_nodes") => IsList(FieldOf(template, "required_nodes"))
    /\ HasField(template, "structure_signature")
            => IsStr(FieldOf(template, "structure_signature"))
    /\ HasField(template, "valid_transitions")
            => IsList(FieldOf(template, "valid_transitions"))

validate_transitions(transitions) ==
    /\ IsList(transitions)
    /\ \A i \in DOMAIN transitions.items :
        /\ IsStr(transitions.items[i])
        /\ ~(transitions.items[i].s # "" /\ ~HasArrow(transitions.items[i].s))

validate(template) ==
    IF NoTemplate(template) THEN FALSE
    ELSE IF ~validate_required_fields(template) THEN FALSE
    ELSE IF Falsy(GetField(template, "screen_id")) THEN FALSE
    ELSE IF HasField(template, "required_nodes")
            /\ ~IsList(GetField(template, "required_nodes")) THEN FALSE
    ELSE IF HasField(template, "structure_signature")
            /\ ~IsStr(GetField(template, "structure_signature")) THEN FALSE
    ELSE IF ~validate_field_types(template) THEN FALSE
    ELSE IF HasField(template, "valid_transitions")
            /\ ~validate_transitions(FieldOf(template, "valid_transitions")) THEN FALSE
    ELSE TRUE

\* the messages of the loop over the transitions, from index i - 1 on
RECURSIVE TransitionErrors(_, _)
TransitionErrors(items, i) ==
    IF i > Len(items) THEN <<>>
    ELSE (IF ~IsStr(items[i])
          THEN <<"Transition " \o ToString(i - 1) \o " must be a string">>
          ELSE IF ~HasArrow(items[i].s) /\ items[i].s # ""
          THEN <<"Invalid transition format: " \o items[i].s>>
          ELSE <<>>)
         \o TransitionErrors(items, i + 1)

\* validate_with_errors: the list of messages; is_valid is len(errors) == 0
validate_with_errors(template) ==
    IF NoTemplate(template) THEN <<"Template must be a non-empty dictionary">>
    ELSE
        (IF ~HasField(template, "screen_id")
         THEN <<"Missing required field: screen_id">>
         ELSE IF ~IsStr(FieldOf(template, "screen_id"))
                 \/ Falsy(FieldOf(template, "screen_id"))
         THEN <<"screen_id must be a non-empty string">>
         ELSE <<>>)
        \o (IF ~HasField(template, "required_nodes") THEN <<>>
            ELSE IF ~IsList(FieldOf(template, "required_nodes"))
            THEN <<"required_nodes must be a list">>
            ELSE IF \E i \in DOMAIN FieldOf(template, "required_nodes").items :
                        ~IsStr(FieldOf(template, "required_nodes").items[i])
            THEN <<"All required_nodes must be strings">>
            ELSE <<>>)
        \o (IF HasField(template, "structure_signature")
               /\ ~IsStr(FieldOf(template, "structure_signature"))
            THEN <<"structure_signature must be a string">>
            ELSE <<>>)
        \o (IF ~HasField(template, "valid_transitions") THEN <<>>
            ELSE IF ~IsList(FieldOf(template, "valid_transitions"))
            THEN <<"valid_transitions must be a list">>
            ELSE TransitionErrors(FieldOf(template, "valid_transitions").items, 1))

NoValidation ==
    [op |-> "none", template |-> NoneTemplate, validated |-> FALSE, valid |-> FALSE,
     diagnosed |-> FALSE, errors |-> <<>>]

\* ------------------------------------------------- validate_transition_graph
\* templates: screen_id -> template, for the loaded screens; a template is
\* kept as its Optional valid_transitions, a list of values
\* the messages for the transitions from index i on, and whether the loop raised
RECURSIVE GraphErrors(_, _, _)
GraphErrors(valid_transitions, i, templates) ==
    IF i > Len(valid_transitions) THEN [raised |-> FALSE, errors |-> <<>>]
    ELSE LET transition == valid_transitions[i]
             rest == GraphErrors(valid_transitions, i + 1, templates)
             Report(message) == [rest EXCEPT !.errors = <<message>> \o @]
         IN IF Falsy(transition) THEN rest
            ELSE IF ~IsStr(transition)
            THEN [raised |-> TRUE, errors |-> <<>>]       \* " -> " not in 1
            ELSE IF ~HasArrow(transition.s) THEN rest
            ELSE IF Len(split(transition.s)) # 2
            THEN Report("Invalid transition format: " \o transition.s)
            ELSE IF split(transition.s)[2] \notin DOMAIN templates
            THEN Report("Transition references unknown screen: "
                            \o split(transition.s)[2])
            ELSE rest

\* template.get("valid_transitions", [])
TransitionsOf(template) ==
    IF template.valid_transitions = Absent THEN <<>>
    ELSE template.valid_transitions[1]

\* the dict of errors as a function on the screens of the set, the empty
\* list for a screen without a key; raised when a loop raised
validate_transition_graph(templates) ==
    LET found == [screen_id \in DOMAIN templates |->
                    GraphErrors(TransitionsOf(templates[screen_id]), 1, templates)]
    IN [raised |-> \E screen_id \in DOMAIN templates : found[screen_id].raised,
        errors |-> [screen_id \in DOMAIN templates |-> found[screen_id].errors]]

\* ------------------------------------------------------------- baseline
InitBaselinePart ==
    /\ sres = NoSignatures
    /\ diffres = NoDiff
    /\ vres = NoValidation
    /\ loader = NewLoader(<<1, 1>>)
    /\ lth = NoLoaderThreads

InitCorePart == InitDriftPart /\ InitNormPart /\ InitBaselinePart

\* --------------------------------------------------------------- actions
Threads == {1, 2}
IdleThread ==
    [pc |-> "idle", event_dict |-> <<>>, timestamp |-> PyNone,
     previous_hash |-> genesis_hash, entry_hash |-> genesis_hash,
     log_entry |-> BlankEntry]
NoTamper == [field |-> "none", mode |-> "none", index |-> 0]

InitLog ==
    /\ file = <<>>
    /\ log = NoLog
    /\ appends = 0
    /\ foreign = 0
    /\ tampered = NoTamper
    /\ loaded = 0
    /\ lastOp = "init"
    /\ th = [t \in Threads |-> IdleThread]
    /\ InitApiPart
    /\ InitCorePart

\* log = ImmutableLog(path), on the file as it is
LogOpen ==
    /\ ~log.handle
    /\ log' = OpenLog(file)
    /\ loaded' = Len(log'.entries)
    /\ lastOp' = "open"
    /\ UNCHANGED <<file, appends, foreign, tampered, th, apiVars, coreVars>>

\* log.append(event_dict)
AppendIn(events) ==
    /\ log.exists
    /\ appends < MaxAppends
    /\ \E event_dict \in events, now \in Times :
        /\ file' = Append(file, AppendLine(log, event_dict, now))
        /\ log' = AppendLog(log, event_dict, now)
    /\ appends' = appends + 1
    /\ lastOp' = "append"
    /\ UNCHANGED <<foreign, tampered, loaded, th, apiVars, coreVars>>

LogAppend == AppendIn(Events)
LogAppendNative == AppendIn(JsonNativeEvents)
LogAppendStamped == AppendIn({StampedEvent, NullStampEvent})

\* log.close()
LogClose ==
    /\ log.exists
    /\ log.handle
    /\ log' = [log EXCEPT !.handle = FALSE]
    /\ lastOp' = "close"
    /\ UNCHANGED <<file, appends, foreign, tampered, loaded, th, apiVars, coreVars>>

NextLog == LogOpen \/ LogAppend \/ LogClose

SpecLog == InitLog /\ [][NextLog]_vars

\* ------------------------------------------- the file changed from outside
BogusHash == <<[d |-> <<>>, t |-> [form |-> "bogus", n |-> 0]]>>
TamperedEvent == <<[k |-> StrKey("data"), v |-> PyInt(2)]>>

\* one stored entry with one field changed, set to null or removed
TamperedLine(line, field, mode) ==
    CASE mode = "remove" -> [line EXCEPT !.has = @ \ {field}]
      [] mode = "null" ->
            IF field = "timestamp" THEN [line EXCEPT !.timestamp = PyNone]
            ELSE [line EXCEPT !.nulls = @ \cup {field}]
      [] mode = "change" ->
            CASE field = "previous_hash" -> [line EXCEPT !.previous_hash = BogusHash]
              [] field = "timestamp" -> [line EXCEPT !.timestamp = PyInt(9)]
              [] field = "data" -> [line EXCEPT !.data = TamperedEvent]

\* the file edited while no log has it open, as test_detect_tampering does
Tamper ==
    /\ ~log.handle
    /\ tampered = NoTamper
    /\ \E i \in DOMAIN file, field \in {"previous_hash", "timestamp", "data"},
          mode \in {"change", "null", "remove"} :
        /\ TamperedLine(file[i], field, mode) # file[i]
        /\ file' = [file EXCEPT ![i] = TamperedLine(file[i], field, mode)]
        /\ tampered' = [field |-> field, mode |-> mode, index |-> i]
    /\ lastOp' = "tamper"
    /\ UNCHANGED <<log, appends, foreign, loaded, th, apiVars, coreVars>>

NextLogTamper == LogOpen \/ LogAppendNative \/ LogClose \/ Tamper

SpecLogTamper == InitLog /\ [][NextLogTamper]_vars

\* a raw event dict as EventWriter.write stores it when used without a log
RawEventLine ==
    JsonLine(Enrich([BlankEntry EXCEPT !.extra = <<[k |-> StrKey("type"), v |-> PyInt(1)]>>],
                    0, 1))

ForeignLines ==
    {OtherLine("blank"), OtherLine("invalid"), OtherLine("scalar"), OtherLine("array"),
     RawEventLine}

\* a line put at the end of the file while no log has it open
WriteForeign ==
    /\ ~log.handle
    /\ foreign < MaxForeign
    /\ \E line \in ForeignLines : file' = Append(file, line)
    /\ foreign' = foreign + 1
    /\ lastOp' = "foreign"
    /\ UNCHANGED <<log, appends, tampered, loaded, th, apiVars, coreVars>>

NextLogEnv == LogOpen \/ LogAppendStamped \/ LogClose \/ WriteForeign

SpecLogEnv == InitLog /\ [][NextLogEnv]_vars

\* ------------------------------------------------ the file fails to read
\* _load_existing when the iteration over the file raises (undecodable
\* bytes, an OSError) after some lines were read: the outer except prints
\* the error and the lines read so far stay loaded
OpenLogReadError(lines, read) == OpenLog(SubSeq(lines, 1, read))

\* log = ImmutableLog(path), and reading the file fails
LogOpenReadError ==
    /\ ~log.handle
    /\ \E read \in 0..Len(file) : log' = OpenLogReadError(file, read)
    /\ loaded' = Len(log'.entries)
    /\ lastOp' = "open_read_error"
    /\ UNCHANGED <<file, appends, foreign, tampered, th, apiVars, coreVars>>

NextLogRead == LogOpen \/ LogAppend \/ LogClose \/ LogOpenReadError

SpecLogRead == InitLog /\ [][NextLogRead]_vars

\* ------------------------------------------- the line write of append fails
\* ImmutableLog.append when self._file_handle.write raises inside
\* EventWriter.write: write has put the entry_id into the dict, prints the
\* error and returns False without counting the write; append goes on
AppendLogWriteFails(l, event_dict, now) ==
    [AppendLog(l, event_dict, now) EXCEPT !.write_count = l.write_count]

\* log.append(event_dict), and nothing reaches the file
LogAppendWriteFails ==
    /\ log.exists
    /\ appends < MaxAppends
    /\ \E event_dict \in JsonNativeEvents, now \in Times :
        log' = AppendLogWriteFails(log, event_dict, now)
    /\ appends' = appends + 1
    /\ lastOp' = "append_write_failed"
    /\ UNCHANGED <<file, foreign, tampered, loaded, th, apiVars, coreVars>>

NextLogWrite == LogOpen \/ LogAppendNative \/ LogClose \/ LogAppendWriteFails

SpecLogWrite == InitLog /\ [][NextLogWrite]_vars

\* ------------------------------------------- EventWriter used on its own
\* dicts handed to EventWriter.write: a raw event, one with a timestamp,
\* one with a "data" key, and one that spells out the first entry of a chain
RawEvent == [BlankEntry EXCEPT !.extra = <<[k |-> StrKey("type"), v |-> PyInt(1)]>>]
StampedRawEvent == [RawEvent EXCEPT !.has = {"timestamp"}, !.timestamp = PyInt(5)]
DataEvent == [BlankEntry EXCEPT !.has = {"data"}, !.data = PlainEvent]
StampedDataEvent ==
    [BlankEntry EXCEPT !.has = {"data", "timestamp"}, !.data = PlainEvent,
                       !.timestamp = PyInt(5)]
FirstEntryEvent ==
    LogEntryDict(add_entry(genesis_hash, PlainEvent, PyInt(5)), genesis_hash,
                 PyInt(5), PlainEvent)
WriterEvents == {RawEvent, StampedRawEvent, DataEvent, StampedDataEvent, FirstEntryEvent}

\* writer.write(event) on a writer of its own, before any log opens the file
WriterWrite ==
    /\ ~log.exists
    /\ foreign < MaxWrites
    /\ \E event \in WriterEvents, now \in Times :
        file' = Append(file, JsonLine(Enrich(event, foreign, now)))
    /\ foreign' = foreign + 1
    /\ lastOp' = "write"
    /\ UNCHANGED <<log, appends, tampered, loaded, th, apiVars, coreVars>>

NextWriter == WriterWrite \/ LogOpen

SpecWriter == InitLog /\ [][NextWriter]_vars

\* ------------------------------------ append, statement by statement
\* ImmutableLog.append takes no lock: a thread can be preempted between any
\* two of its statements.

\* lines 47-58: the event dict, its timestamp, the chain head read
AppendBegin(t) ==
    /\ log.exists
    /\ th[t].pc = "idle"
    /\ appends < MaxAppends
    /\ \E event_dict \in JsonNativeEvents, now \in Times :
        th' = [th EXCEPT ![t] = [IdleThread EXCEPT
                  !.pc = "hash",
                  !.event_dict = event_dict,
                  !.timestamp = EventTimestamp(event_dict, now),
                  !.previous_hash = log.current_hash]]
    /\ appends' = appends + 1
    /\ UNCHANGED <<file, log, foreign, tampered, loaded, lastOp, apiVars, coreVars>>

\* add_entry, lines 52-60 of hash_chain.py: the hash from the current head
AddEntryHash(t) ==
    /\ th[t].pc = "hash"
    /\ th' = [th EXCEPT ![t].pc = "sethead",
                        ![t].entry_hash =
                            add_entry(log.current_hash, th[t].event_dict, th[t].timestamp)]
    /\ UNCHANGED <<file, log, appends, foreign, tampered, loaded, lastOp, apiVars, coreVars>>

\* add_entry, lines 63-64: the head and the length updated
AddEntryStore(t) ==
    /\ th[t].pc = "sethead"
    /\ log' = [log EXCEPT !.current_hash = th[t].entry_hash, !.chain_length = @ + 1]
    /\ th' = [th EXCEPT ![t].pc = "build"]
    /\ UNCHANGED <<file, appends, foreign, tampered, loaded, lastOp, apiVars, coreVars>>

\* lines 62-67: the log_entry dict
BuildEntry(t) ==
    /\ th[t].pc = "build"
    /\ th' = [th EXCEPT ![t].pc = "write",
                        ![t].log_entry =
                            LogEntryDict(th[t].entry_hash,
                                         RecordedPrevious(log, th[t].previous_hash),
                                         th[t].timestamp, th[t].event_dict)]
    /\ UNCHANGED <<file, log, appends, foreign, tampered, loaded, lastOp, apiVars, coreVars>>

\* line 70: writer.write(log_entry)
WriteEntry(t) ==
    /\ th[t].pc = "write"
    /\ LET written == Enrich(th[t].log_entry, log.write_count, 0) IN
        /\ file' = Append(file, JsonLine(written))
        /\ th' = [th EXCEPT ![t].pc = "cache", ![t].log_entry = written]
    /\ log' = [log EXCEPT !.handle = TRUE, !.write_count = @ + 1]
    /\ UNCHANGED <<appends, foreign, tampered, loaded, lastOp, apiVars, coreVars>>

\* line 73: self._entries.append(log_entry), and the return
CacheEntry(t) ==
    /\ th[t].pc = "cache"
    /\ log' = [log EXCEPT !.entries = Append(@, th[t].log_entry)]
    /\ th' = [th EXCEPT ![t] = IdleThread]
    /\ lastOp' = "append"
    /\ UNCHANGED <<file, appends, foreign, tampered, loaded, apiVars, coreVars>>

InitLogConc ==
    /\ file = <<>>
    /\ log = OpenLog(<<>>)
    /\ appends = 0
    /\ foreign = 0
    /\ tampered = NoTamper
    /\ loaded = 0
    /\ lastOp = "open"
    /\ th = [t \in Threads |-> IdleThread]
    /\ InitApiPart
    /\ InitCorePart

NextLogConc ==
    \E t \in Threads :
        \/ AppendBegin(t)
        \/ AddEntryHash(t)
        \/ AddEntryStore(t)
        \/ BuildEntry(t)
        \/ WriteEntry(t)
        \/ CacheEntry(t)

SpecLogConc == InitLogConc /\ [][NextLogConc]_vars

\* ------------------------------------------------- rate limiter actions
InitLogPart ==
    /\ file = <<>>
    /\ log = NoLog
    /\ appends = 0
    /\ foreign = 0
    /\ tampered = NoTamper
    /\ loaded = 0
    /\ th = [t \in Threads |-> IdleThread]

\* time passes
Tick ==
    /\ ticks < MaxTicks
    /\ \E d \in {1, 5, 55} : clock' = clock + d
    /\ ticks' = ticks + 1
    /\ lastOp' = "tick"
    /\ UNCHANGED <<coreVars, logVars, requests, accepted, resp, calls, keyVars, httpVars>>

\* limiter.check_rate_limit(client_id)
CheckRateLimit(client_id) ==
    /\ calls < MaxCalls
    /\ requests' = [requests EXCEPT ![client_id] = QueueAfterCheck(@, clock)]
    /\ resp' = [client |-> client_id, verdict |-> CheckVerdict(requests[client_id], clock)]
    /\ accepted' = IF resp'.verdict = "ok"
                   THEN [accepted EXCEPT ![client_id] = Append(@, clock)]
                   ELSE accepted
    /\ calls' = calls + 1
    /\ lastOp' = "check"
    /\ UNCHANGED <<coreVars, logVars, clock, ticks, keyVars, httpVars>>

InitRate == InitLogPart /\ lastOp = "init" /\ InitApiPart /\ InitCorePart

\* the callers of this specification
RateClients == {"k1", "10.0.0.1"}

NextRate == Tick \/ \E client_id \in RateClients : CheckRateLimit(client_id)

SpecRate == InitRate /\ [][NextRate]_vars

\* --- a client that keeps calling while time passes, without end
\* the clock runs up to Horizon
Horizon == 68

\* a mark (no time, or one time) that current_time has outlived by more
\* than the window
Later(mark, current_time) == mark # <<>> /\ current_time > mark[1] + window_size

\* no accepted call in the last BurstWindow seconds, and fewer than
\* requests_per_minute accepted calls at current_time - window_size or later
Calm(stamps, current_time) ==
    /\ \A i \in DOMAIN stamps : stamps[i] <= current_time - BurstWindow
    /\ Cardinality({i \in DOMAIN stamps : stamps[i] >= current_time - window_size})
            < requests_per_minute

\* of the accepted calls, those at current_time - window_size or later: the
\* older ones are forgotten
InWindow(stamps, current_time) ==
    SelectSeq(stamps, LAMBDA stamp : stamp >= current_time - window_size)

\* what is remembered of the client's rejections after a call
BlockedAfter(was, stamps, verdict, current_time) ==
    [first |-> IF Later(was.first, current_time) \/ was.first = <<>>
               THEN IF verdict = "ok" THEN <<>> ELSE <<current_time>>
               ELSE was.first,
     since |-> IF verdict = "ok" THEN <<>>
               ELSE IF was.since = <<>> THEN <<current_time>> ELSE was.since,
     again |-> verdict # "ok" /\ was.since # <<>>,
     late |-> Later(was.first, current_time),
     late_since |-> Later(was.since, current_time),
     after_more |-> was.again,
     calm |-> Calm(stamps, current_time)]

\* time passes
Advance ==
    /\ \E d \in {4, 60} :
        /\ clock + d <= Horizon
        /\ clock' = clock + d
    /\ lastOp' = "tick"
    /\ UNCHANGED <<logVars, requests, accepted, resp, calls, ticks, keyVars, httpVars,
                   driftVars, nres, baselineVars, blocked>>

\* limiter.check_rate_limit(client_id), called again and again
Retry(client_id) ==
    /\ requests' = [requests EXCEPT ![client_id] = QueueAfterCheck(@, clock)]
    /\ resp' = [client |-> client_id, verdict |-> CheckVerdict(requests[client_id], clock)]
    /\ accepted' = [accepted EXCEPT ![client_id] =
                        IF resp'.verdict = "ok"
                        THEN Append(InWindow(@, clock), clock)
                        ELSE InWindow(@, clock)]
    /\ blocked' = [blocked EXCEPT ![client_id] =
                        BlockedAfter(@, accepted[client_id], resp'.verdict, clock)]
    /\ lastOp' = "check"
    /\ UNCHANGED <<logVars, clock, calls, ticks, keyVars, httpVars,
                   driftVars, nres, baselineVars>>

\* the caller of this specification
RetryClients == {"k1"}

NextRetry == Advance \/ \E client_id \in RetryClients : Retry(client_id)

\* the clock does not stop short of Horizon, and the client does not stop
\* calling
SpecRetry ==
    /\ InitRate
    /\ [][NextRetry]_vars
    /\ WF_vars(Advance)
    /\ \A client_id \in RetryClients : WF_vars(Retry(client_id))

\* ------------------------------------------------- key manager actions
\* manager.create_key(name, role): generate_key returns a key never seen
CreateKey(role) ==
    /\ calls < MaxKeyOps
    /\ \E key \in Keys \ issued :
        /\ LET r == create_key(keys_file, km, key, role, clock) IN
            /\ keys_file' = r.file
            /\ km' = r.km
        /\ issued' = issued \cup {key}
        /\ kres' = [NoKeyResult EXCEPT !.op = "create", !.key = key, !.ret = "key",
                                       !.cached = CacheFresh(km, clock)]
    /\ calls' = calls + 1
    /\ lastOp' = "create"
    /\ UNCHANGED <<coreVars, logVars, httpVars, clock, requests, accepted, resp, ticks, revoked, kth, hits>>

\* manager.create_key(name, "no-such-role") raises ValueError
CreateKeyInvalidRole ==
    /\ calls < MaxKeyOps
    /\ kres' = [NoKeyResult EXCEPT !.op = "create", !.ret = "raise"]
    /\ calls' = calls + 1
    /\ lastOp' = "create"
    /\ UNCHANGED <<coreVars, logVars, httpVars, clock, requests, accepted, resp, ticks,
                   keys_file, km, issued, revoked, kth, hits>>

\* manager.validate_key(key)
ValidateKey(key) ==
    /\ calls < MaxKeyOps
    /\ LET r == validate_key(keys_file, km, key, clock) IN
        /\ keys_file' = r.file
        /\ km' = r.km
        /\ kres' = [op |-> "validate", key |-> key, ret |-> r.ret, meta |-> r.meta,
                    cached |-> CacheFresh(km, clock)]
        /\ hits' = IF r.ret = "meta" THEN [hits EXCEPT ![key] = @ + 1] ELSE hits
    /\ calls' = calls + 1
    /\ lastOp' = "validate"
    /\ UNCHANGED <<coreVars, logVars, httpVars, clock, requests, accepted, resp, ticks, issued, revoked, kth>>

\* manager.revoke_key(key)
RevokeKey(key) ==
    /\ calls < MaxKeyOps
    /\ LET r == revoke_key(keys_file, km, key, clock) IN
        /\ keys_file' = r.file
        /\ km' = r.km
        /\ kres' = [NoKeyResult EXCEPT !.op = "revoke", !.key = key, !.ret = r.ret,
                                       !.cached = CacheFresh(km, clock)]
        /\ revoked' = IF r.ret = "true"
                      THEN revoked \cup {[key |-> key, cached |-> CacheFresh(km, clock)]}
                      ELSE revoked
    /\ calls' = calls + 1
    /\ lastOp' = "revoke"
    /\ UNCHANGED <<coreVars, logVars, httpVars, clock, requests, accepted, resp, ticks, issued, kth, hits>>

\* manager.list_keys()
ListKeys ==
    /\ calls < MaxKeyOps
    /\ km' = list_keys(keys_file, km, clock).km
    /\ kres' = [NoKeyResult EXCEPT !.op = "list", !.ret = "list",
                                   !.cached = CacheFresh(km, clock)]
    /\ calls' = calls + 1
    /\ lastOp' = "list"
    /\ UNCHANGED <<coreVars, logVars, httpVars, clock, requests, accepted, resp, ticks,
                   keys_file, issued, revoked, kth, hits>>

InitKeys == InitLogPart /\ lastOp = "init" /\ InitApiPart /\ InitCorePart

NextKeys ==
    \/ Tick
    \/ \E role \in Roles : CreateKey(role)
    \/ CreateKeyInvalidRole
    \/ \E key \in Keys \cup {UnknownKey, ""} : ValidateKey(key)
    \/ \E key \in Keys \cup {UnknownKey} : RevokeKey(key)
    \/ ListKeys

SpecKeys == InitKeys /\ [][NextKeys]_vars

\* ------------------------------------- validate_key, statement by statement
\* The manager takes no lock: two callers of validate_key interleave at
\* every statement, and open(..., 'w') empties the file before yaml.dump
\* fills it.
KeyThreadSet(t, thread) == [kth EXCEPT ![t] = thread]
InFlight == Cardinality({t \in KeyThreads : kth[t].pc # "idle"})
TruncatedFile == [exists |-> TRUE, keys |-> EmptyStore]

\* line 139: data = self._load_keys()
ValidateLoad(t, key) ==
    /\ kth[t].pc = "idle"
    /\ calls + InFlight < MaxValidates
    /\ LET ld == load_keys(keys_file, km, Held(kth), clock)
           threads == KeyThreadSet(t, [pc |-> "lookup", key |-> key,
                                       data |-> ld.obj, count |-> 0])
       IN /\ kth' = threads
          /\ km' = Collect(ld.km, Held(threads))
    /\ lastOp' = "load"
    /\ UNCHANGED <<coreVars, logVars, httpVars, rateVars, keys_file, issued, revoked, kres, hits>>

\* lines 145-146: the key is not in the dict, return None
ValidateMiss(t) ==
    /\ kth[t].pc = "lookup"
    /\ ~km.heap[kth[t].data][hash_key(kth[t].key)].present
    /\ kth' = KeyThreadSet(t, IdleKeyThread)
    /\ km' = Collect(km, Held(kth'))
    /\ kres' = [NoKeyResult EXCEPT !.op = "validate", !.key = kth[t].key]
    /\ calls' = calls + 1
    /\ lastOp' = "validate"
    /\ UNCHANGED <<coreVars, logVars, httpVars, clock, requests, accepted, resp, ticks,
                   keys_file, issued, revoked, hits>>

\* lines 149-150: metadata = data["keys"][key_hash]; last_used is stamped
ValidateStamp(t) ==
    /\ kth[t].pc = "lookup"
    /\ km.heap[kth[t].data][hash_key(kth[t].key)].present
    /\ km' = [km EXCEPT !.heap[kth[t].data][hash_key(kth[t].key)] = Stamped(@, clock)]
    /\ kth' = KeyThreadSet(t, [kth[t] EXCEPT !.pc = "read"])
    /\ lastOp' = "stamp"
    /\ UNCHANGED <<coreVars, logVars, httpVars, rateVars, keys_file, issued, revoked, kres, hits>>

\* line 151, right-hand side: metadata.get("use_count", 0)
ValidateRead(t) ==
    /\ kth[t].pc = "read"
    /\ kth' = KeyThreadSet(t, [kth[t] EXCEPT !.pc = "write",
            !.count = km.heap[kth[t].data][hash_key(kth[t].key)].use_count])
    /\ lastOp' = "read"
    /\ UNCHANGED <<coreVars, logVars, httpVars, rateVars, keys_file, km, issued, revoked, kres, hits>>

\* line 151, the store: metadata["use_count"] = ... + 1
ValidateWrite(t) ==
    /\ kth[t].pc = "write"
    /\ km' = [km EXCEPT !.heap[kth[t].data][hash_key(kth[t].key)] =
                            Bumped(@, kth[t].count)]
    /\ kth' = KeyThreadSet(t, [kth[t] EXCEPT !.pc = "truncate"])
    /\ lastOp' = "write"
    /\ UNCHANGED <<coreVars, logVars, httpVars, rateVars, keys_file, issued, revoked, kres, hits>>

\* _save_keys, line 73: open(self.keys_file, 'w')
SaveTruncate(t) ==
    /\ kth[t].pc = "truncate"
    /\ keys_file' = TruncatedFile
    /\ kth' = KeyThreadSet(t, [kth[t] EXCEPT !.pc = "dump"])
    /\ lastOp' = "truncate"
    /\ UNCHANGED <<coreVars, logVars, httpVars, rateVars, km, issued, revoked, kres, hits>>

\* _save_keys, line 74: yaml.dump(data, f), and the file is closed
SaveDump(t) ==
    /\ kth[t].pc = "dump"
    /\ keys_file' = WrittenFile(keys_file, km.heap[kth[t].data])
    /\ kth' = KeyThreadSet(t, [kth[t] EXCEPT !.pc = "drop"])
    /\ lastOp' = "dump"
    /\ UNCHANGED <<coreVars, logVars, httpVars, rateVars, km, issued, revoked, kres, hits>>

\* _save_keys, lines 77-78, and line 156: return metadata
ValidateReturn(t) ==
    /\ kth[t].pc = "drop"
    /\ kth' = KeyThreadSet(t, IdleKeyThread)
    /\ km' = Collect(Invalidate(km), Held(kth'))
    /\ kres' = [NoKeyResult EXCEPT !.op = "validate", !.key = kth[t].key,
            !.ret = "meta", !.meta = km.heap[kth[t].data][hash_key(kth[t].key)]]
    /\ hits' = [hits EXCEPT ![kth[t].key] = @ + 1]
    /\ calls' = calls + 1
    /\ lastOp' = "validate"
    /\ UNCHANGED <<coreVars, logVars, httpVars, clock, requests, accepted, resp, ticks,
                   keys_file, issued, revoked>>

\* the key "k1" has been created, then the threads start
InitKeysConc ==
    /\ InitLogPart
    /\ lastOp = "create"
    /\ InitRatePart
    /\ InitHttpPart
    /\ InitCorePart
    /\ keys_file = create_key(NoKeyFile, NoManager, "k1", "readonly", 0).file
    /\ km = create_key(NoKeyFile, NoManager, "k1", "readonly", 0).km
    /\ issued = {"k1"}
    /\ revoked = {}
    /\ kres = [NoKeyResult EXCEPT !.op = "create", !.key = "k1", !.ret = "key"]
    /\ kth = [t \in KeyThreads |-> IdleKeyThread]
    /\ hits = [key \in Keys |-> 0]

NextKeysConc ==
    \/ Tick
    \/ \E t \in KeyThreads :
        \/ \E key \in issued \cup {UnknownKey} : ValidateLoad(t, key)
        \/ ValidateMiss(t)
        \/ ValidateStamp(t)
        \/ ValidateRead(t)
        \/ ValidateWrite(t)
        \/ SaveTruncate(t)
        \/ SaveDump(t)
        \/ ValidateReturn(t)

SpecKeysConc == InitKeysConc /\ [][NextKeysConc]_vars

\* ------------------- create_key and revoke_key beside a running validate_key
\* revoke_key(key) run from its first statement to its last while other
\* threads are inside validate_key and hold the dicts they loaded
RevokeBeside(key) ==
    /\ calls + InFlight < MaxValidates
    /\ LET ld == load_keys(keys_file, km, Held(kth), clock)
           h == hash_key(key)
           data == [ld.km.heap[ld.obj] EXCEPT ![h] = NoRecord]
           found == ld.km.heap[ld.obj][h].present
       IN /\ keys_file' = IF found THEN WrittenFile(keys_file, data) ELSE keys_file
          /\ km' = IF found
                   THEN Collect(Invalidate([ld.km EXCEPT !.heap[ld.obj] = data]), Held(kth))
                   ELSE Collect(ld.km, Held(kth))
          /\ kres' = [NoKeyResult EXCEPT !.op = "revoke", !.key = key,
                            !.ret = IF found THEN "true" ELSE "false",
                            !.cached = CacheFresh(km, clock)]
          /\ revoked' = IF found
                        THEN revoked \cup {[key |-> key, cached |-> CacheFresh(km, clock)]}
                        ELSE revoked
    /\ calls' = calls + 1
    /\ lastOp' = "revoke"
    /\ UNCHANGED <<coreVars, logVars, httpVars, clock, requests, accepted, resp, ticks,
                   issued, kth, hits>>

\* create_key(name, role) run the same way
CreateBeside(role) ==
    /\ calls + InFlight < MaxValidates
    /\ \E key \in Keys \ issued :
        /\ LET ld == load_keys(keys_file, km, Held(kth), clock)
               data == [ld.km.heap[ld.obj] EXCEPT ![hash_key(key)] = NewRecord(role)]
           IN /\ keys_file' = WrittenFile(keys_file, data)
              /\ km' = Collect(Invalidate([ld.km EXCEPT !.heap[ld.obj] = data]), Held(kth))
        /\ issued' = issued \cup {key}
        /\ kres' = [NoKeyResult EXCEPT !.op = "create", !.key = key, !.ret = "key",
                                       !.cached = CacheFresh(km, clock)]
    /\ calls' = calls + 1
    /\ lastOp' = "create"
    /\ UNCHANGED <<coreVars, logVars, httpVars, clock, requests, accepted, resp, ticks,
                   revoked, kth, hits>>

\* one thread inside validate_key, the other callers beside it
NextKeysRace ==
    \/ Tick
    \/ \E key \in issued : ValidateLoad(1, key)
    \/ ValidateMiss(1)
    \/ ValidateStamp(1)
    \/ ValidateRead(1)
    \/ ValidateWrite(1)
    \/ SaveTruncate(1)
    \/ SaveDump(1)
    \/ ValidateReturn(1)
    \/ \E key \in issued : RevokeBeside(key)
    \/ CreateBeside("readonly")

SpecKeysRace == InitKeysConc /\ [][NextKeysRace]_vars

\* ------------------------------------------------------- HTTP requests
Ran(stage, stages) == \E i \in DOMAIN stages : stages[i] = stage

\* one request through the middleware stack, the dependency and the handler
HttpRequest(req) ==
    /\ reqs < MaxRequests
    /\ req.endpoint = "token" => issued # Keys
    /\ LET client_id == ClientId(req)
           verdict == CheckVerdict(requests[client_id], clock)
           auth == validate_key(keys_file, km, PresentedKey(req), clock)
           outcome == Outcome(req, verdict, auth)
           stages == Stages(req, outcome)
           handled == Ran("handler", stages) /\ outcome = "ok"
       IN
        /\ hres' = [client |-> client_id, key |-> PresentedKey(req),
                    outcome |-> outcome, stages |-> stages,
                    discarded |-> IF Ran("rate", stages)
                                  THEN Len(requests[client_id])
                                       - Len(CleanupOld(requests[client_id], clock))
                                  ELSE 0,
                    endpoint |-> req.endpoint,
                    status |-> Status(outcome),
                    \* RequestLoggingMiddleware sets X-Request-ID on the
                    \* response call_next returned
                    request_id |-> Ran("logging", stages),
                    listed |-> IF handled /\ req.endpoint = "keys"
                               THEN list_keys(auth.file, auth.km, clock).listed
                               ELSE {}]
        \* check_rate_limit, and get_stats once call_next has returned
        /\ requests' =
            IF ~Ran("rate", stages) THEN requests
            ELSE IF verdict # "ok"
            THEN [requests EXCEPT ![client_id] = QueueAfterCheck(@, clock)]
            ELSE [requests EXCEPT ![client_id] =
                        CleanupOld(QueueAfterCheck(@, clock), clock)]
        /\ accepted' = IF Ran("rate", stages) /\ verdict = "ok"
                       THEN [accepted EXCEPT ![client_id] = Append(@, clock)]
                       ELSE accepted
        /\ resp' = IF Ran("rate", stages)
                   THEN [client |-> client_id, verdict |-> verdict]
                   ELSE resp
        \* verify_api_key
        /\ kres' = IF Ran("auth", stages) /\ PresentedKey(req) # ""
                   THEN [op |-> "validate", key |-> PresentedKey(req),
                         ret |-> auth.ret, meta |-> auth.meta,
                         cached |-> CacheFresh(km, clock)]
                   ELSE kres
        /\ hits' = IF Ran("auth", stages) /\ auth.ret = "meta"
                   THEN [hits EXCEPT ![PresentedKey(req)] = @ + 1]
                   ELSE hits
        \* the handlers
        /\ captures' = IF handled /\ req.endpoint = "captures"
                       THEN captures + 1 ELSE captures
        /\ built' = IF handled /\ req.endpoint = "templates"
                    THEN built + 1 ELSE built
        /\ \E key \in IF handled /\ req.endpoint = "token"
                      THEN Keys \ issued ELSE {""} :
            LET authed == IF Ran("auth", stages) /\ PresentedKey(req) # ""
                          THEN [file |-> auth.file, km |-> auth.km]
                          ELSE [file |-> keys_file, km |-> km]
                after == IF key # ""
                         THEN create_key(authed.file, authed.km, key,
                                         TokenRole(req), clock)
                         ELSE IF handled /\ req.endpoint = "keys"
                         THEN [file |-> authed.file,
                               km |-> list_keys(authed.file, authed.km, clock).km]
                         ELSE authed
            IN /\ keys_file' = after.file
               /\ km' = after.km
               /\ issued' = IF key # "" THEN issued \cup {key} ELSE issued
    /\ reqs' = reqs + 1
    /\ lastOp' = "request"
    /\ UNCHANGED <<coreVars, logVars, clock, ticks, calls, revoked, kth>>

\* the server starts with the key "k1", created from the command line
InitHttp ==
    /\ InitLogPart
    /\ lastOp = "create"
    /\ InitRatePart
    /\ InitHttpPart
    /\ InitCorePart
    /\ \E role \in Roles :
        /\ keys_file = create_key(NoKeyFile, NoManager, "k1", role, 0).file
        /\ km = create_key(NoKeyFile, NoManager, "k1", role, 0).km
    /\ issued = {"k1"}
    /\ revoked = {}
    /\ kres = [NoKeyResult EXCEPT !.op = "create", !.key = "k1", !.ret = "key"]
    /\ kth = [t \in KeyThreads |-> IdleKeyThread]
    /\ hits = [key \in Keys |-> 0]

\* a second or a full window passes
Wait ==
    /\ ticks < MaxWaits
    /\ \E d \in {1, window_size} : clock' = clock + d
    /\ ticks' = ticks + 1
    /\ lastOp' = "tick"
    /\ UNCHANGED <<coreVars, logVars, requests, accepted, resp, calls, keyVars, httpVars>>

\* the requests the clients of this specification send
SentRequests ==
    {req \in HttpRequests :
        /\ req.api_key = ""
        /\ ~req.fails
        /\ ~req.oversize
        /\ req.header_key \in {"", "k1"}
        /\ req.endpoint \in {"status", "captures"}}

NextHttp ==
    \/ Wait
    \/ \E req \in SentRequests : HttpRequest(req)

SpecHttp == InitHttp /\ [][NextHttp]_vars

\* ------------------------------------------- the API and its key store
\* the requests the clients of this specification send, all at one instant
ApiRequests ==
    {req \in HttpRequests :
        /\ req.header_key \in {"", "k1", UnknownKey}
        /\ req.endpoint \in Protected \ {"validate"}
        /\ req.role # "bogus"
        /\ ~req.oversize
        /\ ~req.fails}

\* requests to the server, and keys revoked from the command line
NextApi ==
    /\ calls + reqs < MaxApiSteps
    /\ \/ \E key \in Keys : RevokeKey(key)
       \/ \E req \in ApiRequests : HttpRequest(req)

SpecApi == InitHttp /\ [][NextApi]_vars

\* ------------------------------------------------ the middleware stack
\* requests of any size, all at one instant
SizedRequests ==
    {req \in HttpRequests :
        /\ req.header_key \in {"", "k1"}
        /\ req.api_key = ""
        /\ req.endpoint \in {"status", "captures"}
        /\ ~req.fails}

NextStack == \E req \in SizedRequests : HttpRequest(req)

SpecStack == InitHttp /\ [][NextStack]_vars

\* ------------------------------------------- transition checker actions
DriftFrame == UNCHANGED <<logVars, apiVars, nres, baselineVars, blocked>>

RecordTransition(from_screen_id, to_screen_id, timestamp) ==
    /\ Len(recorded) < MaxRecords
    /\ history' = record_transition(history, from_screen_id, to_screen_id, timestamp)
    /\ recorded' = Append(recorded, <<from_screen_id, to_screen_id, timestamp>>)
    /\ dres' = [op |-> "record_transition",
                arg |-> <<from_screen_id, to_screen_id, timestamp>>, ret |-> <<>>]
    /\ lastOp' = "record_transition"
    /\ DriftFrame

GetTransitionHistory(count) ==
    /\ dres' = [op |-> "get_transition_history", arg |-> count,
                ret |-> get_transition_history(history, count)]
    /\ lastOp' = "get_transition_history"
    /\ UNCHANGED <<history, recorded>>
    /\ DriftFrame

CheckTransition(from_id, to_id, templates) ==
    /\ dres' = [op |-> "check_transition",
                arg |-> [from_id |-> from_id, to_id |-> to_id, templates |-> templates],
                ret |-> check_transition(from_id, to_id, templates)]
    /\ lastOp' = "check_transition"
    /\ UNCHANGED <<history, recorded>>
    /\ DriftFrame

IsValidTransition(template, to_screen_id) ==
    /\ dres' = [op |-> "is_valid_transition",
                arg |-> [template |-> template, to_id |-> to_screen_id],
                ret |-> is_valid_transition(template, to_screen_id)]
    /\ lastOp' = "is_valid_transition"
    /\ UNCHANGED <<history, recorded>>
    /\ DriftFrame

DetectLoops(window) ==
    /\ dres' = [op |-> "detect_loops", arg |-> window,
                ret |-> detect_loops(history, window)]
    /\ lastOp' = "detect_loops"
    /\ UNCHANGED <<history, recorded>>
    /\ DriftFrame

DetectForcedFlow(templates) ==
    /\ dres' = [op |-> "detect_forced_flow", arg |-> templates,
                ret |-> detect_forced_flow(history, templates)]
    /\ lastOp' = "detect_forced_flow"
    /\ UNCHANGED <<history, recorded>>
    /\ DriftFrame

InitDrift == InitLogPart /\ lastOp = "init" /\ InitApiPart /\ InitCorePart

\* The valid_transitions lists of a template of the screen src: bare screen
\* ids and "src -> dst" strings
Listed(src) == Screens \cup {Arrow(src, dst) : dst \in Screens}
TransitionLists(src) == UNION {[1..n -> Listed(src)] : n \in 0..MaxListed}
Templates(src) ==
    {EmptyDict, [screen_id |-> src]}
        \cup {[screen_id |-> src, valid_transitions |-> valid_transitions] :
                valid_transitions \in TransitionLists(src)}
\* the stores a check is made against: none, an empty one, one that holds
\* the template of the source screen, one that holds another screen's
Stores(src, template) ==
    {EmptyDict, [screen_id \in {src} |-> template],
     [screen_id \in Screens \ {src} |-> template]}

\* one call in a behaviour: the three functions read no state
NextCheck ==
    \E src \in Screens, dst \in Screens :
        \E template \in Templates(src) :
            /\ dres.op = "none"
            /\ \/ CheckTransition(TemplateArg(template), dst, EmptyDict)
               \/ \E templates \in Stores(src, template) :
                       CheckTransition(ScreenArg(src), dst, templates)
               \/ IsValidTransition(template, dst)
SpecCheck == InitDrift /\ [][NextCheck]_vars

\* the transitions and the timestamps the history is fed with
Timestamps == {0, 1}
NextHistory ==
    \/ \E from_screen_id \in {"A", "B"}, timestamp \in Timestamps :
            RecordTransition(from_screen_id,
                             IF from_screen_id = "A" THEN "B" ELSE "A", timestamp)
    \/ \E count \in {1, 10} : GetTransitionHistory(count)
SpecHistory == InitDrift /\ [][NextHistory]_vars

\* the transitions the user is seen to make
Observed == {<<"A", "B">>, <<"B", "C">>, <<"C", "end">>}
\* the templates of a screen: without a valid_transitions key, with one
\* allowed transition, with two
FlowTemplates(screen_id) ==
    {[screen_id |-> screen_id],
     [screen_id |-> screen_id, valid_transitions |-> <<Arrow(screen_id, "end")>>],
     [screen_id |-> screen_id,
      valid_transitions |-> <<Arrow(screen_id, "A"), Arrow(screen_id, "end")>>]}
\* the template stores: any of the source screens may have no template
FlowStores ==
    UNION {{templates \in [known -> UNION {FlowTemplates(s) : s \in known}] :
                \A s \in known : templates[s] \in FlowTemplates(s)} :
           known \in SUBSET {"A", "B", "C"}}
Windows == 1..MaxWindow

\* the detectors read the history and change nothing: each is asked once
\* after a transition has been recorded
NextFlow ==
    \/ \E transition \in Observed :
            /\ Len(recorded) < MaxObserved
            /\ RecordTransition(transition[1], transition[2], 0)
    \/ /\ dres.op \in {"none", "record_transition"}
       /\ \/ \E window \in Windows : DetectLoops(window)
          \/ \E templates \in FlowStores : DetectForcedFlow(templates)
SpecFlow == InitDrift /\ [][NextFlow]_vars

\* ------------------------------------------------------ normalizer actions
NormFrame == UNCHANGED <<logVars, apiVars, driftVars, baselineVars, blocked>>

\* normalized = normalizer.normalize(tree)
NormalizeTree ==
    /\ nres.op = "input"
    /\ nres' = [nres EXCEPT !.op = "normalize",
                            !.ret = normalize(nres.tree).ret,
                            !.after = normalize(nres.tree).tree]
    /\ lastOp' = "normalize"
    /\ NormFrame

\* normalizer.normalize(normalized)
NormalizeAgain ==
    /\ nres.op = "normalize"
    /\ nres' = [nres EXCEPT !.op = "again", !.again = normalize(nres.ret).ret]
    /\ lastOp' = "normalize"
    /\ NormFrame

Item(key, value) == [k |-> key, v |-> value, c |-> <<>>]
ListItem(key, nodes) == [k |-> key, v |-> "", c |-> nodes]

\* nodes with names and aliases, in every order of their keys
NameKeys == {"name", "label", "title", "text", "description"}
NameValue(key) ==
    CASE key = "name" -> "n" [] key = "label" -> "l" [] key = "title" -> "t"
      [] key = "text" -> "x" [] key = "description" -> "y"
NamedNodes ==
    {[i \in DOMAIN keys |-> Item(keys[i], NameValue(keys[i]))] :
        keys \in {seq \in UNION {[1..n -> NameKeys] : n \in 1..Cardinality(NameKeys)} :
                    \A i, j \in DOMAIN seq : seq[i] = seq[j] => i = j}}

\* what a node says of itself, without its children
Headers ==
    {<<Item("id", "7")>>,
     <<Item("role", "b"), Item("name", "x")>>,
     <<Item("id", "7"), Item("role", "a"), Item("name", "y")>>,
     <<Item("role", "a"), Item("label", "x"), Item("value", "1")>>,
     <<Item("role", "a"), Item("name", "x"), Item("value", "2")>>,
     <<Item("role", "a"), Item("name", "x"), Item("type", "t")>>}

\* the nodes of n nodes in all, and the child lists of m nodes in all
RECURSIVE NodesOf(_)
RECURSIVE ChildLists(_)
NodesOf(n) ==
    {IF children = <<>> THEN header ELSE Append(header, ListItem("children", children)) :
        header \in Headers, children \in ChildLists(n - 1)}
ChildLists(m) ==
    IF m = 0 THEN {<<>>}
    ELSE UNION {{<<first>> \o others :
                    first \in NodesOf(k), others \in ChildLists(m - k)} :
                k \in 1..m}
Nodes == NamedNodes \cup UNION {NodesOf(n) : n \in 1..MaxNodes}

\* a capture: the raw node, or an envelope around the root node
InputTrees ==
    Nodes \cup {<<Item("timestamp", "0"), ListItem("root", <<node>>)>> : node \in Nodes}

InitNorm ==
    /\ InitLogPart /\ lastOp = "init" /\ InitApiPart /\ InitDriftPart
    /\ InitBaselinePart
    /\ nres \in {[NoNormResult EXCEPT !.op = "input", !.tree = tree, !.after = tree] :
                    tree \in InputTrees}
NextNorm == NormalizeTree \/ NormalizeAgain
SpecNorm == InitNorm /\ [][NextNorm]_vars

\* ------------------------------------------------------ signature actions
BaselineFrame == UNCHANGED <<logVars, apiVars, driftVars, nres, blocked>>

\* signatures = generate_multi(tree), for each of the two trees
GenerateMulti ==
    /\ sres.op = "input"
    /\ sres' = [sres EXCEPT !.op = "generate_multi",
                            !.a = generate_multi(sres.tree_a),
                            !.b = generate_multi(sres.tree_b)]
    /\ lastOp' = "generate_multi"
    /\ UNCHANGED <<diffres, vres, loader, lth>>
    /\ BaselineFrame

\* the tree with another node in the place of the node at the path
WithNodeAt(tree, path, new) ==
    IF "root" \in KeysOf(tree)
    THEN SetList(tree, "root", <<ReplaceAt(NodeOf(tree), path, new)>>)
    ELSE ReplaceAt(tree, path, new)
NodeValues == {"1", "2", "3"}

\* a tree normalize returned, and the same tree with another value in one
\* node that has one
InitSign ==
    /\ InitLogPart /\ lastOp = "init" /\ InitApiPart /\ InitDriftPart /\ InitNormPart
    /\ \E tree \in InputTrees :
        LET normalized == normalize(tree).ret
        IN \E path \in PathsOf(NodeOf(normalized)) : \E value \in NodeValues :
            LET node == NodeAt(NodeOf(normalized), path)
                changed == WithNodeAt(normalized, path, SetItem(node, "value", value))
            IN /\ "value" \in KeysOf(node)
               /\ changed # normalized
               /\ sres = [NoSignatures EXCEPT
                              !.op = "input", !.path = path,
                              !.tree_a = normalized, !.tree_b = changed]
    /\ diffres = NoDiff
    /\ vres = NoValidation
    /\ loader = NewLoader(<<1, 1>>)
    /\ lth = NoLoaderThreads
NextSign == GenerateMulti
SpecSign == InitSign /\ [][NextSign]_vars

\* ---------------------------------------------------- diff engine actions
\* result = diff(tree_a, tree_b)
Diff ==
    /\ diffres.op = "input"
    /\ diffres' = [diffres EXCEPT !.op = "diff",
                                  !.ret = diff(diffres.tree_a, diffres.tree_b)]
    /\ lastOp' = "diff"
    /\ UNCHANGED <<sres, vres, loader, lth>>
    /\ BaselineFrame

\* the tree without the child at the end of the path, and all below it
WithoutChildAt(tree, path) ==
    IF "root" \in KeysOf(tree)
    THEN SetList(tree, "root", <<RemoveAt(NodeOf(tree), path)>>)
    ELSE RemoveAt(tree, path)

\* a tree normalize returned, and the same tree with one child taken out
InitDiff ==
    /\ InitLogPart /\ lastOp = "init" /\ InitApiPart /\ InitDriftPart /\ InitNormPart
    /\ \E tree \in InputTrees :
        LET normalized == normalize(tree).ret
        IN \E path \in PathsOf(NodeOf(normalized)) \ {<<>>} :
            diffres = [NoDiff EXCEPT
                          !.op = "input", !.path = path,
                          !.child = NodeAt(NodeOf(normalized), path),
                          !.tree_a = normalized,
                          !.tree_b = WithoutChildAt(normalized, path)]
    /\ sres = NoSignatures
    /\ vres = NoValidation
    /\ loader = NewLoader(<<1, 1>>)
    /\ lth = NoLoaderThreads
NextDiff == Diff
SpecDiff == InitDiff /\ [][NextDiff]_vars

\* ------------------------------------------------ template loader actions
\* The loader takes no lock: a thread can be preempted between any two
\* statements of reload, load_all, get and list_templates.
LoaderFrame ==
    /\ UNCHANGED <<sres, diffres, vres>>
    /\ BaselineFrame
LoaderThreads == {"reloader", "reader"}
ReloadRunning == lth.reloader.pc \notin {"idle", "done"}

\* a thread calls reload (on a loaded loader), or get, list_templates, load_all
LoaderCall(t) ==
    /\ lth[t].pc = "idle"
    /\ \E op \in IF t = "reloader" THEN {"reload"}
                 ELSE {"get", "list_templates", "load_all"},
          screen_id \in IndexedScreens :
        /\ op = "reload" => loader.loaded
        /\ op # "get" => screen_id = "A"
        /\ lth' = [lth EXCEPT
                ![t] = [pc |-> CASE op = "reload" -> "clear"
                                 [] op = "load_all" -> "enter"
                                 [] OTHER -> "check",
                        op |-> op,
                        screen_id |-> IF op = "get" THEN screen_id ELSE "",
                        todo |-> <<>>],
                !.old = IF op = "reload" THEN loader.cache ELSE @]
    /\ lastOp' = "call"
    /\ UNCHANGED loader
    /\ LoaderFrame

\* reload: self._cache.clear()
ReloadClear ==
    /\ lth.reloader.pc = "clear"
    /\ loader' = [loader EXCEPT !.cache = EmptyIndex]
    /\ lth' = [lth EXCEPT !.reloader.pc = "flag"]
    /\ lastOp' = "clear"
    /\ LoaderFrame

\* reload: self._loaded = False, and on to load_all
ReloadFlag ==
    /\ lth.reloader.pc = "flag"
    /\ loader' = [loader EXCEPT !.loaded = FALSE]
    /\ lth' = [lth EXCEPT !.reloader.pc = "enter"]
    /\ lastOp' = "flag"
    /\ LoaderFrame

\* get, list_templates: if not self._loaded: self.load_all()
LoaderCheck(t) ==
    /\ lth[t].pc = "check"
    /\ lth' = [lth EXCEPT ![t].pc = IF ~loader.loaded THEN "enter" ELSE "read"]
    /\ lastOp' = "check"
    /\ UNCHANGED loader
    /\ LoaderFrame

\* where a thread goes on when its load_all returns
AfterLoadAll(t) == IF lth[t].op = "reload" THEN "done" ELSE "read"

\* load_all: if self._loaded and self._cache: return self._cache; otherwise
\* the files of the directory are to be loaded
LoadAllEnter(t) ==
    /\ lth[t].pc = "enter"
    /\ lth' = IF loader.loaded /\ loader.cache # EmptyIndex
              THEN [lth EXCEPT ![t].pc = AfterLoadAll(t)]
              ELSE [lth EXCEPT ![t].pc = "loading", ![t].todo = TemplateFiles]
    /\ lastOp' = "enter"
    /\ UNCHANGED loader
    /\ LoaderFrame

\* load_all: one turn of the loop, self._cache[template["screen_id"]] = template
LoadAllFile(t) ==
    /\ lth[t].pc = "loading"
    /\ lth[t].todo # <<>>
    /\ LET yaml_file == Head(lth[t].todo)
           i == CHOOSE j \in DOMAIN TemplateFiles : TemplateFiles[j] = yaml_file
       IN loader' = [loader EXCEPT !.cache[ScreenOf(yaml_file)] = loader.dir[i]]
    /\ lth' = [lth EXCEPT ![t].todo = Tail(@)]
    /\ lastOp' = "load"
    /\ LoaderFrame

\* load_all: self._loaded = True after the loop
LoadAllDone(t) ==
    /\ lth[t].pc = "loading"
    /\ lth[t].todo = <<>>
    /\ loader' = [loader EXCEPT !.loaded = TRUE]
    /\ lth' = [lth EXCEPT ![t].pc = AfterLoadAll(t)]
    /\ lastOp' = "loaded"
    /\ LoaderFrame

\* the reader's call returns: self._cache.get(screen_id), list(self._cache.keys())
\* or self._cache itself, which the caller of load_all holds from then on
LoaderRead ==
    /\ lth.reader.pc = "read"
    /\ lth' = [lth EXCEPT
            !.reader = IdleLoaderThread,
            !.seen = [op |-> lth.reader.op, screen_id |-> lth.reader.screen_id,
                      index |-> loader.cache, during |-> ReloadRunning],
            !.held = @ \/ (lth.reader.op = "load_all" /\ lth.reloader.pc = "idle"),
            !.held_index = IF ~lth.held /\ lth.reader.op = "load_all"
                              /\ lth.reloader.pc = "idle"
                           THEN loader.cache ELSE @]
    /\ lastOp' = "read"
    /\ UNCHANGED loader
    /\ LoaderFrame

\* a template file is rewritten before the reload
EditTemplate ==
    /\ lth.reloader.pc = "idle"
    /\ \E i \in DOMAIN TemplateFiles :
        /\ loader.dir[i] = 1
        /\ loader' = [loader EXCEPT !.dir[i] = 2]
    /\ lastOp' = "edit"
    /\ UNCHANGED lth
    /\ LoaderFrame

InitLoader ==
    /\ InitLogPart /\ lastOp = "init" /\ InitApiPart /\ InitCorePart
NextLoader ==
    \/ \E t \in LoaderThreads :
        \/ LoaderCall(t)
        \/ LoadAllEnter(t)
        \/ LoadAllFile(t)
        \/ LoadAllDone(t)
    \/ LoaderCheck("reader")
    \/ ReloadClear
    \/ ReloadFlag
    \/ LoaderRead
    \/ EditTemplate
SpecLoader == InitLoader /\ [][NextLoader]_vars

\* --------------------------------------------- template validator actions
ValidatorFrame ==
    /\ UNCHANGED <<sres, diffres, loader, lth>>
    /\ BaselineFrame

\* is_valid = validator.validate(template)
Validate ==
    /\ vres.op # "none"
    /\ ~vres.validated
    /\ vres' = [vres EXCEPT !.op = "validate", !.validated = TRUE,
                            !.valid = validate(vres.template)]
    /\ lastOp' = "validate"
    /\ ValidatorFrame

\* is_valid, errors = validator.validate_with_errors(template)
ValidateWithErrors ==
    /\ vres.op # "none"
    /\ ~vres.diagnosed
    /\ vres' = [vres EXCEPT !.op = "validate_with_errors", !.diagnosed = TRUE,
                            !.errors = validate_with_errors(vres.template)]
    /\ lastOp' = "validate_with_errors"
    /\ ValidatorFrame

\* the values the fields of an input template take
ScreenIdValues == {StrValue(""), StrValue("A"), IntValue, NoneValue}
NodeLists ==
    {ListValue(<<>>), ListValue(<<StrValue("A")>>), ListValue(<<IntValue>>),
     ListValue(<<StrValue("A"), IntValue>>), StrValue("A")}
SignatureValues == {StrValue("A"), StrValue(""), IntValue}
TransitionValues ==
    {ListValue(<<>>), ListValue(<<StrValue("")>>), ListValue(<<StrValue(Arrow("A", "B"))>>),
     ListValue(<<StrValue("B")>>), ListValue(<<IntValue>>),
     ListValue(<<StrValue(Arrow("A", "B")), StrValue("B")>>),
     StrValue(Arrow("A", "B"))}
Optional(values) == {Absent} \cup {Some(value) : value \in values}
InputTemplates ==
    {NoneTemplate}
        \cup {TemplateDict(screen_id, required_nodes, structure_signature,
                           valid_transitions) :
                screen_id \in Optional(ScreenIdValues),
                required_nodes \in Optional(NodeLists),
                structure_signature \in Optional(SignatureValues),
                valid_transitions \in Optional(TransitionValues)}

InitValidator ==
    /\ InitLogPart /\ lastOp = "init" /\ InitApiPart /\ InitDriftPart /\ InitNormPart
    /\ sres = NoSignatures
    /\ diffres = NoDiff
    /\ vres \in {[NoValidation EXCEPT !.op = "input", !.template = template] :
                    template \in InputTemplates}
    /\ loader = NewLoader(<<1, 1>>)
    /\ lth = NoLoaderThreads
NextValidator == Validate \/ ValidateWithErrors
SpecValidator == InitValidator /\ [][NextValidator]_vars

\* ----------------------------------------------- transition graph actions
\* errors = checker.validate_transition_graph(templates)
ValidateTransitionGraph(templates) ==
    /\ dres.op = "none"
    /\ dres' = [op |-> "validate_transition_graph", arg |-> templates,
                ret |-> validate_transition_graph(templates)]
    /\ lastOp' = "validate_transition_graph"
    /\ UNCHANGED <<history, recorded>>
    /\ DriftFrame

\* the transitions a template of screen A declares
GraphTransitions ==
    {StrValue(""), StrValue("B"), StrValue("X"), StrValue(Arrow("A", "B")),
     StrValue(Arrow("A", "X")), StrValue(Arrow("A", Arrow("B", "A"))), IntValue}
GraphLists == UNION {[1..n -> GraphTransitions] : n \in 0..MaxListed}
GraphTemplate(valid_transitions) == [valid_transitions |-> valid_transitions]
\* template sets: screen A alone, and screens A and B
TemplateSets ==
    UNION {{[screen_id \in {"A"} |-> template_a],
            [screen_id \in {"A", "B"} |->
                IF screen_id = "A" THEN template_a
                ELSE GraphTemplate(Some(<<StrValue(Arrow("B", "A"))>>))]} :
           template_a \in {GraphTemplate(Absent)}
                \cup {GraphTemplate(Some(valid_transitions)) :
                        valid_transitions \in GraphLists}}

NextGraph == \E templates \in TemplateSets : ValidateTransitionGraph(templates)
SpecGraph == InitDrift /\ [][NextGraph]_vars

\* ---------------------------------------------------------------- claims
\* C1: for a log opened on an absent or empty file, after any sequence of
\* appends of any payloads json.dumps accepts, interleaved with close and
\* re-open, verify_integrity returns true.
C1_VerifyTrueAfterAppends == log.exists => verify_integrity(log) = "true"

\* C2: in a file of N >= 1 entries written by append, changing the stored
\* previous_hash, timestamp or data of one entry (to another value, to null,
\* or removing it) makes verify_integrity return false after re-opening.
C2_TamperDetected ==
    (lastOp = "open" /\ tampered # NoTamper) => verify_integrity(log) = "false"

\* the entry before entry i carries the hash that entry i records, and
\* entry i records the genesis hash exactly when it is the first entry
Linked(entries, i) ==
    /\ (entries[i].previous_hash = genesis_hash) <=> (i = 1)
    /\ i > 1 =>
        /\ entries[i - 1].json = "object"
        /\ CarriesHash(entries[i - 1])
        /\ entries[i].previous_hash = entries[i - 1].entry_hash

AllLoadedCarryHash ==
    \A i \in 1..loaded : log.entries[i].json = "object" /\ CarriesHash(log.entries[i])

NoSharedPrevious(entries) ==
    \A i, j \in DOMAIN entries :
        i # j => entries[i].previous_hash # entries[j].previous_hash
C4_ConcurrentAppendsSerial ==
    (\A t \in Threads : th[t].pc = "idle") =>
        /\ \A i \in DOMAIN log.entries : Linked(log.entries, i)
        /\ \A i \in DOMAIN file : Linked(file, i)
        /\ NoSharedPrevious(log.entries)
        /\ NoSharedPrevious(file)
        /\ verify_integrity(log) = "true"

\* C5: opening a file with a line that is no well-formed entry (no JSON, or
\* JSON that is no object) leaves the log in load-error state with
\* verify_integrity false (not raising), every well-formed line in
\* get_entries in file order, and the head at the last entry's hash.
Malformed(line) == line.json \in {"invalid", "scalar", "array"}
WellFormedLine(line) == line.json = "object"
NormalizeAll(lines) == [i \in DOMAIN lines |-> Normalize(lines[i])]
WellFormedEntries(lines) == NormalizeAll(SelectSeq(lines, WellFormedLine))
RECURSIVE LastHash(_)
LastHash(entries) ==
    IF entries = <<>> THEN genesis_hash
    ELSE IF CarriesHash(entries[Len(entries)]) THEN entries[Len(entries)].entry_hash
    ELSE LastHash(SubSeq(entries, 1, Len(entries) - 1))
C5_MalformedLineMarksLoadError ==
    (lastOp = "open" /\ \E i \in DOMAIN file : Malformed(file[i])) =>
        /\ log.load_error
        /\ verify_integrity(log) = "false"
        /\ log.entries = WellFormedEntries(file)
        /\ log.current_hash = LastHash(WellFormedEntries(file))

\* C6: in load-error state an append adds no entry, writes no line and
\* leaves the chain head unchanged.
C6_AppendRejectedInLoadError ==
    [][(log.load_error /\ lastOp' = "append") =>
          /\ log'.entries = log.entries
          /\ file' = file
          /\ log'.current_hash = log.current_hash]_vars

\* C7: for every client, the accepted calls in any window (T-5, T] are at
\* most burst_size and in any window (T-60, T] at most requests_per_minute;
\* a client is only ever rejected on account of its own accepted calls.
CountIn(stamps, lo, hi) ==
    Cardinality({i \in DOMAIN stamps : lo < stamps[i] /\ stamps[i] <= hi})
C7_WindowBounds ==
    /\ \A c \in Clients, T \in 0..clock :
        /\ CountIn(accepted[c], T - BurstWindow, T) <= burst_size
        /\ CountIn(accepted[c], T - window_size, T) <= requests_per_minute
    /\ (lastOp = "check" /\ resp.verdict = "burst") =>
            CountIn(accepted[resp.client], clock - BurstWindow, clock) >= burst_size
    /\ (lastOp = "check" /\ resp.verdict = "minute") =>
            CountIn(accepted[resp.client], clock - window_size - 1, clock) >= requests_per_minute

\* one client at its per-minute limit and rejected for it, after the other
\* client was accepted
C7_Witness ==
    /\ lastOp = "check" /\ resp.verdict = "minute"
    /\ \E c \in Clients :
        /\ c # resp.client
        /\ accepted[c] # <<>>
    /\ \E T \in 0..clock : CountIn(accepted[resp.client], T - window_size, T) = requests_per_minute

\* C9: once revoke_key(k) has returned True, every later validate_key(k)
\* returns nothing, whether or not the manager held a cached copy younger
\* than the TTL when the key was revoked; revoke_key of a key that is not
\* stored returns False and changes neither the file nor the cached data.
Stored(kf, key) == kf.exists /\ kf.keys[hash_key(key)].present
RevokedKeys == {r.key : r \in revoked}

C9_RevokedKeyNeverValidates ==
    [][/\ (lastOp' = "validate" /\ kres'.key \in RevokedKeys) => kres'.ret = "none"
       /\ (lastOp' = "revoke" /\ ~Stored(keys_file, kres'.key)) =>
             /\ kres'.ret = "false"
             /\ keys_file' = keys_file
             /\ \A h \in KeyHashes :
                    Stored(keys_file, h.sha256) = Stored(keys_file', h.sha256)
             /\ km'.cache # NoObj => km'.heap[km'.cache] = keys_file.keys]_vars

\* a key revoked while a cached copy was fresh has been validated again,
\* after a time longer than the TTL, and was refused
C9_Witness ==
    /\ lastOp = "validate"
    /\ [key |-> kres.key, cached |-> TRUE] \in revoked
    /\ kres.ret = "none"
    /\ keys_file.exists
    /\ clock >= cache_ttl

\* C10: for n validate_key calls on one stored key, made one after another
\* or at the same time, the stored use_count after all calls have returned
\* equals n and last_used is set; validate_key of a key that is not stored
\* returns nothing and changes nothing.
C10_UseCountCountsCalls ==
    (\A t \in KeyThreads : kth[t].pc = "idle") =>
        \A key \in issued :
            /\ Stored(keys_file, key)
            /\ keys_file.keys[hash_key(key)].use_count = hits[key]
            /\ hits[key] > 0 => keys_file.keys[hash_key(key)].last_used # <<>>

\* C8: a request rejected by the rate limiter has no side effect: no
\* timestamp is recorded for the client (its queue only loses the
\* timestamps older than the window), the authenticator and the handler do
\* not run, and the key store, with the use_count and last_used of the
\* presented key, is unchanged.
C8_RateLimitedNoSideEffect ==
    [][(lastOp' = "request" /\ hres'.outcome = "rate_limited") =>
          /\ requests' = [requests EXCEPT ![hres'.client] = CleanupOld(@, clock)]
          /\ ~Ran("auth", hres'.stages)
          /\ ~Ran("handler", hres'.stages)
          /\ keys_file' = keys_file
          /\ km' = km
          /\ hits' = hits
          /\ captures' = captures
          /\ built' = built
          /\ issued' = issued]_vars

\* a request presenting a stored key that has been used was rejected, and
\* the limiter discarded an old timestamp of the client while rejecting it
C8_Witness ==
    /\ lastOp = "request"
    /\ hres.outcome = "rate_limited"
    /\ hres.key \in Keys
    /\ Stored(keys_file, hres.key)
    /\ keys_file.keys[hash_key(hres.key)].use_count > 0
    /\ hres.discarded > 0

\* C11: on POST /captures, POST /templates, POST /auth/token and GET
\* /auth/keys the handler's effect (capture persisted, template built, key
\* created, keys listed) happens only if the request carries a key that is
\* stored at that moment and whose role is allowed (operator or admin for
\* captures and templates, admin for token and keys); of the requests that
\* reach the route, one without key is answered 401, one with a key that is
\* not stored 403, one with a stored key of another role 403.
GatedEndpoints == {"captures", "templates", "token", "keys"}
RolesAllowedOn(endpoint) ==
    IF endpoint \in {"captures", "templates"} THEN {"operator", "admin"} ELSE {"admin"}
Permitted(kf, key, endpoint) ==
    /\ key # ""
    /\ Stored(kf, key)
    /\ kf.keys[hash_key(key)].role \in RolesAllowedOn(endpoint)

StageRank(stage) ==
    CASE stage = "logging" -> 1
      [] stage = "rate" -> 2
      [] stage = "size" -> 3
      [] stage = "auth" -> 4
      [] stage = "handler" -> 5

C12_LoggerThenLimiterThenSizeCap ==
    [][lastOp' = "request" =>
          /\ hres'.status \in {413, 429} => hres'.request_id
          /\ \A i, j \in DOMAIN hres'.stages :
                i < j => StageRank(hres'.stages[i]) < StageRank(hres'.stages[j])
          /\ hres'.status = 413 =>
                CheckVerdict(requests[hres'.client], clock) = "ok"]_vars

\* The template a check_transition call takes as the source's: the dict it
\* was handed, or the store's entry for the screen id
SourceTemplate(arg) ==
    IF arg.from_id.dict THEN arg.from_id.template
    ELSE Get(arg.templates, arg.from_id.screen_id, EmptyDict)
SourceScreen(arg) ==
    IF arg.from_id.dict THEN Get(arg.from_id.template, "screen_id", "unknown")
    ELSE arg.from_id.screen_id
Unrestricted(template) ==
    \/ DOMAIN template = {}
    \/ "valid_transitions" \notin DOMAIN template
    \/ template.valid_transitions = <<>>

\* C13: check_transition, in either calling form, and is_valid_transition
\* declare the transition valid when there is no source template or the
\* source template's valid_transitions is empty or absent.
C13_UnrestrictedIsValid ==
    /\ dres.op = "check_transition" /\ Unrestricted(SourceTemplate(dres.arg))
            => dres.ret.is_valid
    /\ dres.op = "is_valid_transition" /\ Unrestricted(dres.arg.template)
            => dres.ret

\* the list holds dst as a bare screen id or as "<src> -> <dst>"
ListsTarget(valid_transitions, src, dst) ==
    \E i \in DOMAIN valid_transitions :
        \/ valid_transitions[i] = dst
        \/ valid_transitions[i] = Arrow(src, dst)

\* C14: with a non-empty valid_transitions list, check_transition(src, dst)
\* is valid if and only if the list holds dst as a bare screen id or holds
\* the string "<src> -> <dst>"; an invalid result carries the list as
\* expected.
C14_ValidIffListed ==
    dres.op = "check_transition" /\ ~Unrestricted(SourceTemplate(dres.arg))
        => LET valid_transitions == SourceTemplate(dres.arg).valid_transitions
           IN /\ dres.ret.is_valid <=>
                    ListsTarget(valid_transitions, SourceScreen(dres.arg),
                                dres.arg.to_id)
              /\ ~dres.ret.is_valid => dres.ret.expected = Some(valid_transitions)

\* the last n entries of a sequence, all of it when it is shorter
MostRecent(seq, n) ==
    IF Len(seq) <= n THEN seq ELSE SubSeq(seq, Len(seq) - n + 1, Len(seq))

\* C15: after any record_transition calls the history holds at most
\* max_history entries, and they are the most recent min(n, max_history)
\* recorded (from, to, timestamp) triples in recording order.
C15_HistoryIsMostRecent ==
    /\ Len(history) <= max_history
    /\ history = MostRecent(recorded, max_history)

C15_Witness ==
    /\ lastOp = "record_transition"
    /\ Len(recorded) > max_history
    /\ Len(history) = max_history
    /\ history[1] # recorded[1]

\* the flow the detector observes: the source screens of the recent
\* transitions, then the last target
ObservedFlow ==
    LET recent == MostRecent(history, FlowWindow)
    IN IF recent = <<>> THEN <<>>
       ELSE Append([i \in DOMAIN recent |-> recent[i][1]], recent[Len(recent)][2])
\* the screen has a loaded template with exactly one allowed transition
ExactlyOneAllowed(templates, screen_id) ==
    /\ screen_id \in DOMAIN templates
    /\ "valid_transitions" \in DOMAIN templates[screen_id]
    /\ Len(templates[screen_id].valid_transitions) = 1

\* C16: detect_forced_flow reports exactly when the history has at least 3
\* entries and every non-terminal screen of the observed flow has exactly
\* one allowed transition; a screen without template, or with zero or
\* several allowed transitions, prevents the report. The reported flow is
\* the source screens followed by the last target, and length is its size.
C16_ForcedFlowIffOneWayOut ==
    dres.op = "detect_forced_flow"
        => /\ dres.ret # Absent <=>
                /\ Len(history) >= 3
                /\ \A k \in 1..(Len(ObservedFlow) - 1) :
                        ExactlyOneAllowed(dres.arg, ObservedFlow[k])
           /\ dres.ret # Absent =>
                /\ dres.ret[1].flow = ObservedFlow
                /\ dres.ret[1].length = Len(ObservedFlow)

\* the runs of at least two consecutive screens in a sequence of screens
Runs(screen_ids) ==
    UNION {{SubSeq(screen_ids, i, j) : j \in (i + 1)..Len(screen_ids)} :
           i \in 1..Len(screen_ids)}
\* the run starts at two places at least
OccursTwice(run, screen_ids) ==
    \E i \in 1..Len(screen_ids), j \in 1..Len(screen_ids) :
        /\ i < j
        /\ j + Len(run) - 1 <= Len(screen_ids)
        /\ SubSeq(screen_ids, i, i + Len(run) - 1) = run
        /\ SubSeq(screen_ids, j, j + Len(run) - 1) = run
WindowSources(window) ==
    LET recent == MostRecent(history, window)
    IN [i \in DOMAIN recent |-> recent[i][1]]

Triple(node) ==
    <<Lookup(node, "role", ""), Lookup(node, "name", ""), Lookup(node, "type", "")>>
\* the children are ascending at this node and at every node below it
RECURSIVE AscendingBelow(_)
AscendingBelow(node) ==
    LET children == ListOf(node, "children")
    IN /\ \A i, j \in DOMAIN children :
            i < j => ~KeyLess(Triple(children[j]), Triple(children[i]))
       /\ \A i \in DOMAIN children : AscendingBelow(children[i])
\* two children of the output with equal triples come from children of the
\* input that stand in the same order
EqualsKeepOrder(input, output) ==
    LET before == ListOf(input, "children")
        after == ListOf(output, "children")
    IN \A i, j \in DOMAIN after :
            i < j /\ Triple(after[i]) = Triple(after[j])
                => \E p, q \in DOMAIN before :
                        /\ p < q
                        /\ normalize_node(before[p]) = after[i]
                        /\ normalize_node(before[q]) = after[j]

\* C19: for every input tree, given with a top-level root or as a raw node,
\* the children of each node of the output are in ascending (role, name,
\* type) order at every depth, children with equal triples keeping their
\* input order.
C19_ChildrenAscendingAtEveryDepth ==
    nres.op \in {"normalize", "again"}
        => /\ AscendingBelow(NodeOf(nres.ret))
           /\ EqualsKeepOrder(NodeOf(nres.tree), NodeOf(nres.ret))

Aliases == <<"label", "title", "text", "description">>
\* the node's own name, else the value of the first alias it has
NameByPrecedence(node) ==
    IF "name" \in KeysOf(node) THEN Lookup(node, "name", "")
    ELSE LET present == SelectSeq(Aliases, LAMBDA key : key \in KeysOf(node))
         IN Lookup(node, present[1], "")

\* C20: whatever the order of a node's keys, the normalised name is the
\* node's own name when it has a name key, and otherwise the value of the
\* first alias present among label, title, text, description; no alias key
\* remains in the normalised node.
C20_NameThenFirstAlias ==
    nres.op \in {"normalize", "again"}
        => LET node == NodeOf(nres.tree)
               normalized == NodeOf(nres.ret)
           IN /\ KeysOf(node) \cap NameKeys # {}
                    => /\ "name" \in KeysOf(normalized)
                       /\ Lookup(normalized, "name", "") = NameByPrecedence(node)
              /\ KeysOf(normalized) \cap (NameKeys \ {"name"}) = {}

\* C21: two normalised trees that differ only in the value of one node have
\* equal structural signatures, different content signatures and different
\* full signatures.
C21_ValueChangeShowsInContent ==
    sres.op = "generate_multi"
        => /\ sres.a.structural = sres.b.structural
           /\ sres.a.content # sres.b.content
           /\ sres.a.full # sres.b.full

\* C22: when tree B is tree A with exactly one child taken out, at any
\* position among its siblings, and both are normalised, diff(A, B) has
\* exactly one removed entry, the node of that entry is the child taken
\* out, and the similarity is below 1.
C22_RemovedChildIsReported ==
    diffres.op = "diff"
        => /\ Len(diffres.ret.removed) = 1
           /\ diffres.ret.removed[1].node = diffres.child
           /\ diffres.ret.similarity.num < diffres.ret.similarity.den

\* C23: a file written only by EventWriter.write, n events of any dict
\* payload and no ImmutableLog.append, opens as a log of exactly n entries
\* whose verify_integrity returns true.
C23_WriterFileOpensIntact ==
    log.exists => /\ Len(log.entries) = foreign
                  /\ verify_integrity(log) = "true"

\* what a reader gets from an index: the entry of one screen for get, the
\* keys for list_templates, the whole index for load_all
ReadFrom(index, op, screen_id) ==
    CASE op = "get" -> <<index[screen_id]>>
      [] op = "list_templates" -> <<KeysOfIndex(index)>>
      [] OTHER -> <<index>>

\* C24: while reload runs, a concurrent get, list_templates or load_all sees
\* the complete old index or the complete new one, never an empty or a
\* partly filled one; and the index object a caller got from load_all
\* before the reload is not changed by the reload.
C24_ReloadIsAtomicForReaders ==
    /\ (lth.seen.op # "none" /\ lth.seen.during) =>
            ReadFrom(lth.seen.index, lth.seen.op, lth.seen.screen_id)
                \in {ReadFrom(lth.old, lth.seen.op, lth.seen.screen_id),
                     ReadFrom(IndexOf(loader.dir), lth.seen.op, lth.seen.screen_id)}
    /\ lth.held => loader.cache = lth.held_index

\* C25: when revoke_key or create_key runs concurrently with validate_key
\* or with another create or revoke on the same key file, the file at the
\* end reflects every completed operation: a key whose revoke_key returned
\* true is absent (a concurrent validate_key does not write it back), and
\* every created key is present.
C25_FileReflectsCompletedOps ==
    (\A t \in KeyThreads : kth[t].pc = "idle") =>
        /\ \A key \in RevokedKeys : ~keys_file.keys[hash_key(key)].present
        /\ \A key \in issued \ RevokedKeys : keys_file.keys[hash_key(key)].present

\* the condition the specification gives for a valid template
StatedValid(template) ==
    /\ template.py = "dict"
    /\ HasField(template, "screen_id")
    /\ IsStr(FieldOf(template, "screen_id")) /\ FieldOf(template, "screen_id").s # ""
    /\ HasField(template, "required_nodes") =>
        /\ IsList(FieldOf(template, "required_nodes"))
        /\ \A i \in DOMAIN FieldOf(template, "required_nodes").items :
                IsStr(FieldOf(template, "required_nodes").items[i])
    /\ HasField(template, "structure_signature") =>
            IsStr(FieldOf(template, "structure_signature"))
    /\ HasField(template, "valid_transitions") =>
        /\ IsList(FieldOf(template, "valid_transitions"))
        /\ \A i \in DOMAIN FieldOf(template, "valid_transitions").items :
            /\ IsStr(FieldOf(template, "valid_transitions").items[i])
            /\ \/ FieldOf(template, "valid_transitions").items[i].s = ""
               \/ HasArrow(FieldOf(template, "valid_transitions").items[i].s)

\* C26: validate(t) is true exactly when screen_id is a non-empty string,
\* required_nodes, if present, is a list of strings, structure_signature,
\* if present, is a string, and valid_transitions, if present, is a list of
\* strings each empty or containing " -> "; and validate(t) is true exactly
\* when validate_with_errors(t) returns no diagnostics.
C26_ValidateMatchesDiagnostics ==
    (vres.validated /\ vres.diagnosed) =>
        /\ vres.valid <=> StatedValid(vres.template)
        /\ vres.valid <=> (vres.errors = <<>>)

\* the screen a transition string leads to: its last part
TargetOf(text) == split(text)[Len(split(text))]
\* a string that is a syntactic error in every reading, or whose target,
\* bare or after the arrow, is not a loaded screen
MustBeReported(text, templates) ==
    /\ text # ""
    /\ \/ Len(split(text)) > 2
       \/ TargetOf(text) \notin DOMAIN templates
\* a string "<from> -> <to>" whose target is loaded
Resolves(text, templates) ==
    Len(split(text)) = 2 /\ TargetOf(text) \in DOMAIN templates
Mentions(errors, text) ==
    \E i \in DOMAIN errors :
        errors[i] \in {"Invalid transition format: " \o text,
                       "Transition references unknown screen: " \o TargetOf(text)}

\* C27: for every template set validate_transition_graph reports, under
\* the declaring screen, every transition string that is a syntactic error
\* and every transition whose target, bare or after the arrow, is not a
\* loaded screen_id; it reports nothing for a screen whose transitions are
\* all well-formed and resolve; and it never raises.
C27_GraphErrorsAreReported ==
    dres.op = "validate_transition_graph" =>
        /\ ~dres.ret.raised
        /\ \A screen_id \in DOMAIN dres.arg :
            LET valid_transitions == TransitionsOf(dres.arg[screen_id])
                strings == {i \in DOMAIN valid_transitions : IsStr(valid_transitions[i])}
            IN /\ \A i \in strings :
                    MustBeReported(valid_transitions[i].s, dres.arg)
                        => Mentions(dres.ret.errors[screen_id], valid_transitions[i].s)
               /\ (\A i \in DOMAIN valid_transitions :
                        /\ IsStr(valid_transitions[i])
                        /\ Resolves(valid_transitions[i].s, dres.arg))
                    => dres.ret.errors[screen_id] = <<>>

\* C28: when reading the file fails while a log is being opened, the log
\* marks itself load-error and verify_integrity returns false, also when
\* the entries loaded before the failure form a valid chain or none were
\* loaded.
C28_ReadErrorMarksLoadError ==
    lastOp = "open_read_error" =>
        /\ log.load_error
        /\ verify_integrity(log) = "false"

\* C29: in every reachable state the in-memory entries of an open log are
\* exactly the entries stored in the file, in the same order: an append
\* whose line write fails adds no in-memory entry and does not advance the
\* chain head or the chain length.
C29_EntriesAreTheFile ==
    log.exists =>
        /\ Len(log.entries) = Len(file)
        /\ \A i \in DOMAIN log.entries : JsonLine(log.entries[i]) = file[i]
        /\ log.chain_length = Len(file)
        /\ log.current_hash =
                IF file = <<>> THEN genesis_hash ELSE file[Len(file)].entry_hash

\* C30: a rejected client is accepted again. A call that comes more than
\* window_size seconds after a rejection is accepted, whatever calls the
\* client made in between.
C30_FirstLaterCallIsAccepted ==
    (lastOp = "check" /\ blocked[resp.client].late) => resp.verdict = "ok"

\* C30 (amended): a call that comes more than window_size seconds after a
\* rejection is accepted if no call of the client was accepted in between,
\* however many were rejected; a call that comes BurstWindow seconds or
\* more after the client's last accepted call, with fewer than
\* requests_per_minute accepted calls in the window, is accepted; and a
\* client that keeps calling is accepted again after every rejection that
\* the clock can outlive.
C30_AcceptedWhenDue ==
    (lastOp = "check" /\ (blocked[resp.client].late_since \/ blocked[resp.client].calm))
        => resp.verdict = "ok"
C30_BlockedClientRecovers ==
    /\ []C30_AcceptedWhenDue
    /\ \A c \in RetryClients :
            (blocked[c].since # <<>> /\ blocked[c].since[1] + window_size < Horizon)
                ~> (resp.client = c /\ resp.verdict = "ok")

\* a call accepted more than window_size seconds after the first of
\* several rejections, none of the client's calls accepted in between
C30_Witness ==
    /\ lastOp = "check" /\ resp.verdict = "ok"
    /\ blocked[resp.client].late_since
    /\ blocked[resp.client].after_more
====
